---- MODULE Spec2Model ----
(***************************************************************************)
(* Shift cipher: the encipher program (src/unnamed/part_000) and the two   *)
(* decipher programs of src/ShiftCipher/src/ShiftDecipher.cpp (variant "A":*)
(* the deque/bitset program of lines 1-828, variant "B": the index/bool    *)
(* program of lines 830-1624).                                             *)
(*                                                                         *)
(* Bytes are modelled by their ASCII codes.  A session is one run of the   *)
(* encipher program on an input file followed by one run of a decipher     *)
(* program on the file the encipher run wrote, over one file system.       *)
(***************************************************************************)
EXTENDS Integers, Sequences, FiniteSets, TLC

VARIABLES
    variant,   \* which decipher program the session uses: "A" or "B"
    encopts,   \* the encipher program's CipherOptions object
    decopts,   \* the decipher program's DecipherCtrlOpts object
    encpc,     \* position of the encipher run
    decpc,     \* position of the decipher run
    encrun,    \* locals of encipherFileText (streams, counters)
    decrun,    \* locals of decipherFileText (streams, counters)
    fs,        \* the file system: path -> content, for the files that exist
    encmain,   \* main and parseCommandLine of the encipher program: the
               \* command line, the parser's locals, what was printed and thrown
    decmain    \* the same for the decipher program

vars == <<variant, encopts, decopts, encpc, decpc, encrun, decrun, fs,
          encmain, decmain>>

(***************************************************************************)
(* Bounds of the model                                                     *)
(***************************************************************************)
\* shifts -MaxShift..MaxShift are enumerated by the dictionary specification
MaxShift == 70
\* input files hold at most MaxLen bytes
MaxLen == 3
\* periodicity is checked for k + n*m with n in -MaxPeriods..MaxPeriods
MaxPeriods == 2

(***************************************************************************)
(* int: 32-bit signed integer                                              *)
(***************************************************************************)
INT_MIN == -2147483647 - 1
INT_MAX == -(INT_MIN + 1)
\* int + int leaves the range of int
IntAddOverflows(a, b) ==
    \/ b > 0 /\ a > INT_MAX - b
    \/ b < 0 /\ a < INT_MIN - b

\* what a + b gives when it leaves the range of int (undefined behaviour):
\* the add instruction of the builds wraps around, a + b - 2^32 above
\* INT_MAX and a + b + 2^32 below INT_MIN
IntAddWrapped(a, b) ==
    IF b > 0 THEN (a + INT_MIN) + (b + INT_MIN)
    ELSE (a - INT_MIN) + (b - INT_MIN)

\* int % int of C++: the remainder of the division truncated towards zero
IntRem(a, b) ==
    IF a >= 0 THEN a % b ELSE -((-a) % b)

(***************************************************************************)
(* The character arrays                                                    *)
(***************************************************************************)
NL == 10   \* '\n'

ORIG_UPPER == [i \in 1..26 |-> 64 + i]      \* 'A'..'Z'
ORIG_LOWER == [i \in 1..26 |-> 96 + i]      \* 'a'..'z'
ORIG_NUMBERS == [i \in 1..10 |-> 47 + i]    \* '0'..'9'
ORIG_PUNCTS ==
    << 33, 34, 35, 36, 37, 38,
       39, 40, 41, 42, 43, 44,
       45, 46, 47, 58, 59, 60,
       61, 62, 63, 64, 91, 92,
       93, 94, 95, 96, 123, 124,
       125, 126 >>

\* the decipher programs define the same four arrays under other names
ORIG_UPPERCASE == [i \in 1..26 |-> 64 + i]
ORIG_LOWERCASE == [i \in 1..26 |-> 96 + i]
ORIG_DIGITS == [i \in 1..10 |-> 47 + i]
ORIG_PUNCTUATION_SYMBOLS ==
    << 33, 34, 35, 36, 37, 38,
       39, 40, 41, 42, 43, 44,
       45, 46, 47, 58, 59, 60,
       61, 62, 63, 64, 91, 92,
       93, 94, 95, 96, 123, 124,
       125, 126 >>

Range(s) == {s[i] : i \in 1..Len(s)}

\* mutant of cshift: std::valarray<char>::shift(n), which fills the vacated
\* places with char() instead of wrapping around
cshift_NotCircular(arr, n) ==
    [i \in 1..Len(arr) |-> IF i + n <= Len(arr) THEN arr[i + n] ELSE 0]

\* mutant of cshift: the circular shift to the right
cshift_Right(arr, n) ==
    [i \in 1..Len(arr) |-> arr[((i - 1 - n) % Len(arr)) + 1]]

\* std::valarray<char>::cshift(n): element i of the result is element
\* (i + n) mod size of the array (0-based), a circular shift to the left
cshift(arr, n) ==
    [i \in 1..Len(arr) |-> arr[((i - 1 + n) % Len(arr)) + 1]]

(***************************************************************************)
(* calculateEffectiveShift / calcReducedShift                              *)
(***************************************************************************)
\* the number of iterations of the loop below that are taken at once, for a
\* negative eff_shift: with a positive mod_size every iteration before which
\* eff_shift is still negative, eff_shift + i * mod_size < 0 for
\* i = 0 .. LoopStride - 1; with a negative mod_size every iteration whose
\* addition stays in the range of int
LoopStride(eff_shift, mod_size) ==
    IF mod_size > 0
    THEN ((-(eff_shift + 1)) \div mod_size) + 1
    ELSE (eff_shift - INT_MIN) \div (-mod_size)

RECURSIVE whileNegativeAdd(_, _)
\* while( eff_shift < 0 ) { eff_shift += mod_size; }  The programs call it
\* with mod_size 26, 10 and 32; with mod_size 0 the loop does not end
whileNegativeAdd(eff_shift, mod_size) ==
    IF eff_shift < 0
    THEN IF IntAddOverflows(eff_shift, mod_size)
         THEN whileNegativeAdd(IntAddWrapped(eff_shift, mod_size), mod_size)
         ELSE whileNegativeAdd(
                  (eff_shift + (LoopStride(eff_shift, mod_size) - 1) * mod_size) + mod_size,
                  mod_size)
    ELSE eff_shift

\* mutant of calculateEffectiveShift: the remainder alone, also below zero
calculateEffectiveShift_RemOnly(original_shift, mod_size) ==
    IntRem(original_shift, mod_size)

calculateEffectiveShift(original_shift, mod_size) ==
    IF original_shift < 0
    THEN whileNegativeAdd(original_shift, mod_size)
    ELSE IntRem(original_shift, mod_size)

calcReducedShift(original_shift, mod_size) ==
    IF original_shift < 0
    THEN whileNegativeAdd(original_shift, mod_size)
    ELSE IntRem(original_shift, mod_size)

(***************************************************************************)
(* std::map<char,char>                                                     *)
(***************************************************************************)
EmptyDict == [b \in {} |-> 0]

\* dict[key] = value
DictPut(dict, key, value) ==
    (key :> value) @@ dict

\* for(size_t n = 0; n < keys.size(); ++n) { dict[keys[n]] = values[n]; }
\* every key of the array is in the map afterwards, with the value of the last
\* iteration that assigned it; the other entries of the map are kept
forEachPut(dict, keys, values) ==
    [b \in (DOMAIN dict) \cup Range(keys) |->
        IF b \in Range(keys)
        THEN LET at == {n \in 1..Len(keys) : keys[n] = b}
             IN  values[CHOOSE n \in at : \A k \in at : k <= n]
        ELSE dict[b]]

(***************************************************************************)
(* Strings.  A token of the command line is a string; TokenChars gives the *)
(* characters of every string the command lines of the model are made of,  *)
(* for the code that looks at single characters (find_last_of, curropt[n], *)
(* std::stoi, fsys::path::filename).                                       *)
(***************************************************************************)
\* the longest combined token of flag characters
MaxFlags == 3

\* the single-character flags that do not ask for help
FlagChars == {"a", "n", "p", "l"}

RECURSIVE Concat(_)
\* the string made of the characters chars
Concat(chars) ==
    IF chars = <<>> THEN "" ELSE Head(chars) \o Concat(Tail(chars))

\* the sequences of 1 to MaxFlags flag characters
FlagSeqs == UNION {[1..n -> FlagChars] : n \in 1..MaxFlags}

\* the characters of the combined tokens "-" \o c1 ... cn of flag characters
FlagTokenSeqs == {<<"-">> \o cs : cs \in FlagSeqs}

\* the characters of the other strings of the model: program names, option
\* tokens, values, paths and the names files are kept under
TokenSeqs ==
    {
      <<".", "/", "e", "n", "c">>,
      <<"e", "n", "c">>,
      <<".", "/", "d", "e", "c">>,
      <<"d", "e", "c">>,
      <<"-", "i">>,
      <<"-", "-", "i", "f", "i", "l", "e">>,
      <<"-", "o">>,
      <<"-", "-", "o", "f", "i", "l", "e">>,
      <<"-", "s">>,
      <<"-", "-", "s", "h", "i", "f", "t", "-", "a", "m", "o", "u", "n", "t">>,
      <<"-", "-", "s", "h", "i", "f", "t", "-", "n", "u", "m", "s">>,
      <<"-", "-", "s", "h", "i", "f", "t", "-", "n", "u", "m", "b", "e", "r",
        "s">>,
      <<"-", "-", "s", "h", "i", "f", "t", "-", "p", "u", "n", "c", "t", "s">>,
      <<"-", "-", "s", "h", "i", "f", "t", "-", "a", "l", "l">>,
      <<"-", "-", "h", "e", "l", "p">>,
      <<"-", "-", "s", "h", "o", "w", "-", "l", "o", "g">>,
      <<"-", "n">>,
      <<"-", "p">>,
      <<"-", "a">>,
      <<"-", "l">>,
      <<"-", "h">>,
      <<"-", "a", "h">>,
      <<"-", "h", "a">>,
      <<"-", "n", "p">>,
      <<"-", "x", "h">>,
      <<"-", "h", "x">>,
      <<"-", "n", "x">>,
      <<>>,
      <<"-">>,
      <<"-", "-", "b", "o", "g", "u", "s">>,
      <<"a", "-", "b">>,
      <<"i", "n", ".", "t", "x", "t">>,
      <<"n", "o", "n", "e", ".", "t", "x", "t">>,
      <<"o", "u", "t", ".", "e", "n", "c">>,
      <<"o", "u", "t", ".", "d", "e", "c">>,
      <<"i", "n", ".", "t", "x", "t", ".", "c", "i", "p", "h">>,
      <<"i", "n", ".", "t", "x", "t", ".", "d", "e", "c">>,
      <<"i", "n", ".", "t", "x", "t", ".", "c", "i", "p", "h", ".", "d", "e",
        "c">>,
      <<"o", "u", "t", ".", "e", "n", "c", ".", "d", "e", "c">>,
      <<"n", "o", "n", "e", ".", "t", "x", "t", ".", "c", "i", "p", "h">>,
      <<"n", "o", "n", "e", ".", "t", "x", "t", ".", "d", "e", "c">>,
      <<".", "c", "i", "p", "h">>,
      <<".", "d", "e", "c">>,
      <<".", "/", "i", "n", ".", "t", "x", "t">>,
      <<".", "/", "i", "n", ".", "t", "x", "t", ".", "c", "i", "p", "h">>,
      <<".", "/", "i", "n", ".", "t", "x", "t", ".", "d", "e", "c">>,
      <<".", "/", "o", "u", "t", ".", "e", "n", "c">>,
      <<".", ".">>,
      <<".", "/", ".">>,
      <<"i", "n", ".", "t", "x", "t", "/", ".">>,
      <<"c", "w", "d">>,
      <<".", ".", "/", "c", "w", "d">>,
      <<".", ".", "/", "c", "w", "d", "/", "i", "n", ".", "t", "x", "t">>,
      <<".", ".", "/", "c", "w", "d", "/", "i", "n", ".", "t", "x", "t", ".",
        "c", "i", "p", "h">>,
      <<".", ".", "/", "c", "w", "d", "/", "i", "n", ".", "t", "x", "t", ".",
        "d", "e", "c">>,
      <<".", "/", ".", ".", "/", "c", "w", "d", "/", "i", "n", ".", "t", "x",
        "t">>,
      <<".", ".", "/", "x">>,
      <<".", "/", ".", ".", "/", "x">>,
      <<"/", "x">>,
      <<"/">>,
      <<"/", "a">>,
      <<"/", "a", "/", "b">>,
      <<".", ".", "/", ".", ".", "/", "b">>,
      <<"/", "a", "/", "b", "/", "c", "w", "d", "/", "i", "n", ".", "t", "x",
        "t">>,
      <<"/", "a", "/", "b", "/", "c", "w", "d", "/", "i", "n", ".", "t", "x",
        "t", ".", "c", "i", "p", "h">>,
      <<"/", "a", "/", "b", "/", "c", "w", "d", "/", "i", "n", ".", "t", "x",
        "t", ".", "d", "e", "c">>,
      <<".", ".", "/", ".", ".", "/", "b", "/", "c", "w", "d", "/", "i", "n",
        ".", "t", "x", "t">>,
      <<".", ".", "/", ".", ".", "/", ".", ".", "/", ".", ".", "/", "x">>,
      <<".", ".", "/", ".", ".", "/", ".", ".", "/", "x">>,
      <<".", ".", "/", ".", ".", "/", "b", "/", "x">>,
      <<"/", "a", "/", "x">>,
      <<".", ".", "/", ".", ".", "/", "x">>,
      <<"n", "o", "d", "i", "r", "/", "x">>,
      <<".">>,
      <<"-", "3">>,
      <<"3", "6">>,
      <<"a", "b", "c">>,
      <<"7", "x">>,
      <<"\t", "7">>,
      <<"9", "9", "9", "9", "9", "9", "9", "9", "9", "9", "9">>,
      <<"-", "2", "1", "4", "7", "4", "8", "3", "6", "4", "8">>
    }

\* the table that gives every string made of the characters of one of seqs
\* its characters
TableOf(seqs) ==
    [t \in {Concat(cs) : cs \in seqs} |-> CHOOSE cs \in seqs : Concat(cs) = t]

TokenChars == TableOf(TokenSeqs \cup FlagTokenSeqs)

\* the characters of a string
Chars(str) == TokenChars[str]

\* the string that has these characters
Str(chars) == CHOOSE t \in DOMAIN TokenChars : TokenChars[t] = chars

\* std::string::npos: the largest value of size_t, above every index
npos == 2147483647

\* std::string::find_last_of(c): the 0-based index of the last c of the
\* string, npos when the string has none
find_last_of(str, c) ==
    LET at == {n \in 1..Len(Chars(str)) : Chars(str)[n] = c}
    IN  IF at = {} THEN npos
        ELSE (CHOOSE n \in at : \A k \in at : k <= n) - 1

\* fsys::path(str).filename().string(): what follows the last '/'
filename(str) ==
    LET slash == find_last_of(str, "/")
    IN  IF slash = npos THEN str
        ELSE Str(SubSeq(Chars(str), slash + 2, Len(Chars(str))))

(***************************************************************************)
(* std::stoi(str, nullptr, 10)                                             *)
(***************************************************************************)
DigitValue ==
    ("0" :> 0) @@ ("1" :> 1) @@ ("2" :> 2) @@ ("3" :> 3) @@ ("4" :> 4) @@
    ("5" :> 5) @@ ("6" :> 6) @@ ("7" :> 7) @@ ("8" :> 8) @@ ("9" :> 9)

\* the smallest v for which v * 10 - d is an int
stoiLimit(d) == -((-(INT_MIN + (IF d = 0 THEN 1 ELSE d))) \div 10)

RECURSIVE stoiDigits(_, _, _, _)
\* the digits of chars from index n on, accumulated as the negative number
\* acc; any: a digit was seen; range: the number is an int so far.  The
\* conversion stops at the first character that is no digit.
stoiDigits(chars, n, acc, st) ==
    IF n > Len(chars) \/ chars[n] \notin DOMAIN DigitValue
    THEN [st EXCEPT !.acc = acc]
    ELSE LET d == DigitValue[chars[n]]
         IN  IF ~st.range \/ acc < stoiLimit(d)
             THEN stoiDigits(chars, n + 1, acc, [st EXCEPT !.any = TRUE, !.range = FALSE])
             ELSE stoiDigits(chars, n + 1, acc * 10 - d, [st EXCEPT !.any = TRUE])

\* isspace of the C locale: blank, \t, \n, \v, \f and \r (a string cannot
\* hold \v, which is written VT and is one character)
VT == "VT"
isspace(c) == c \in {" ", "\t", "\n", VT, "\f", "\r"}

\* the index of the first character of chars, from n on, that is no
\* whitespace: strtol, which std::stoi calls, skips what isspace accepts
RECURSIVE skipSpaces(_, _)
skipSpaces(chars, n) ==
    IF n <= Len(chars) /\ isspace(chars[n]) THEN skipSpaces(chars, n + 1) ELSE n

\* std::stoi: whitespace, an optional sign and decimal digits are converted and
\* what follows the digits is ignored; invalid_argument is thrown when there
\* is no digit and out_of_range when the number is no int
stoi(str) ==
    LET chars == Chars(str)
        b     == skipSpaces(chars, 1)
        neg   == b <= Len(chars) /\ chars[b] = "-"
        s     == IF b <= Len(chars) /\ chars[b] \in {"-", "+"} THEN b + 1 ELSE b
        r     == stoiDigits(chars, s, 0, [any |-> FALSE, range |-> TRUE, acc |-> 0])
    IN  IF ~r.any THEN [thrown |-> "invalid_argument", value |-> 0]
        ELSE IF ~r.range \/ (~neg /\ r.acc = INT_MIN)
        THEN [thrown |-> "out_of_range", value |-> 0]
        ELSE [thrown |-> "none", value |-> IF neg THEN r.acc ELSE -r.acc]

(***************************************************************************)
(* The option objects as parseCommandLine leaves them for a command line   *)
(* of valid options: -i ifile, -s shift, -n / -p as given, and -o ofile    *)
(* when o_given.                                                           *)
(***************************************************************************)
DefaultShift == 5

\* the program names of the command lines (token 0)
EncProgram == "./enc"
DecProgram == "./dec"

\* std::bitset<8> decipher_flags = 0b01000000: bit 6 alone is set
InitialDecipherFlags == [b \in 0..7 |-> b = 6]

EncParsed(ifile, o_given, ofile, shift, nums, puncts) ==
    [ program_name      |-> EncProgram,
      prog_name_stripped |-> filename(EncProgram),
      infilename        |-> ifile,
      outfilename       |-> IF o_given THEN ofile ELSE "",
      use_default_oname |-> ~o_given,
      shift_amount      |-> shift,
      effective_shift   |-> DefaultShift,
      numbers_shift     |-> 0,
      puncts_shift      |-> 0,
      enc_numbers       |-> nums,
      enc_puncts        |-> puncts,
      cipher_dict       |-> EmptyDict,
      nbytes_file       |-> 0,
      display_log_info  |-> FALSE ]

DecAParsed(ifile, o_given, ofile, shift, nums, puncts) ==
    [ program_name      |-> DecProgram,
      prog_name_stripped |-> filename(DecProgram),
      infilename        |-> ifile,
      outfilename       |-> IF o_given THEN ofile ELSE "",
      orig_shift_len    |-> shift,
      reduced_shift_len |-> DefaultShift,
      digits_shift_len  |-> 0,
      puncts_shift_len  |-> 0,
      cipher_dict       |-> EmptyDict,
      nbytes_file       |-> 0,
      decipher_flags    |->
          [b \in 0..7 |->
              CASE b = 1 -> IF o_given THEN FALSE ELSE InitialDecipherFlags[1]
                [] b = 2 -> nums \/ InitialDecipherFlags[2]
                [] b = 3 -> puncts \/ InitialDecipherFlags[3]
                [] OTHER -> InitialDecipherFlags[b]] ]

DecBParsed(ifile, o_given, ofile, shift, nums, puncts) ==
    [ program_name      |-> DecProgram,
      prog_name_stripped |-> filename(DecProgram),
      infilename        |-> ifile,
      outfilename       |-> IF o_given THEN ofile ELSE "",
      use_default_oname |-> ~o_given,
      orig_shift_len    |-> shift,
      reduced_shift_len |-> DefaultShift,
      digits_shift_len  |-> 0,
      puncts_shift_len  |-> 0,
      dec_numbers       |-> nums,
      dec_puncts        |-> puncts,
      cipher_dict       |-> EmptyDict,
      nbytes_file       |-> 0,
      display_log_info  |-> FALSE,
      decipher_flags    |-> InitialDecipherFlags ]

(***************************************************************************)
(* generateCipherDict                                                      *)
(***************************************************************************)
\* mutant of generateCipherDict_enc: the digit and punctuation shifts are
\* reduced from the already reduced alphabet shift
generateCipherDict_enc_FromReduced(o) ==
    LET eff_shift == calculateEffectiveShift(o.shift_amount, 26)
        num_shift == IF o.enc_numbers
                     THEN calculateEffectiveShift(eff_shift, Len(ORIG_NUMBERS))
                     ELSE o.numbers_shift
        pun_shift == IF o.enc_puncts
                     THEN calculateEffectiveShift(eff_shift, Len(ORIG_PUNCTS))
                     ELSE o.puncts_shift
        d1 == forEachPut(o.cipher_dict, ORIG_UPPER, cshift(ORIG_UPPER, eff_shift))
        d2 == forEachPut(d1, ORIG_LOWER, cshift(ORIG_LOWER, eff_shift))
        d3 == forEachPut(d2, ORIG_NUMBERS, cshift(ORIG_NUMBERS, num_shift))
        d4 == forEachPut(d3, ORIG_PUNCTS, cshift(ORIG_PUNCTS, pun_shift))
    IN  [o EXCEPT !.effective_shift = eff_shift,
                  !.numbers_shift   = num_shift,
                  !.puncts_shift    = pun_shift,
                  !.cipher_dict     = d4]

\* mutant of generateCipherDict_enc: the digit and punctuation shifts are
\* computed whatever the flags are
generateCipherDict_enc_IgnoreFlags(o) ==
    LET eff_shift == calculateEffectiveShift(o.shift_amount, 26)
        num_shift == calculateEffectiveShift(o.shift_amount, Len(ORIG_NUMBERS))
        pun_shift == calculateEffectiveShift(o.shift_amount, Len(ORIG_PUNCTS))
        d1 == forEachPut(o.cipher_dict, ORIG_UPPER, cshift(ORIG_UPPER, eff_shift))
        d2 == forEachPut(d1, ORIG_LOWER, cshift(ORIG_LOWER, eff_shift))
        d3 == forEachPut(d2, ORIG_NUMBERS, cshift(ORIG_NUMBERS, num_shift))
        d4 == forEachPut(d3, ORIG_PUNCTS, cshift(ORIG_PUNCTS, pun_shift))
    IN  [o EXCEPT !.effective_shift = eff_shift,
                  !.numbers_shift   = num_shift,
                  !.puncts_shift    = pun_shift,
                  !.cipher_dict     = d4]

\* mutant of generateCipherDict_enc: the loops of a class that is not enabled
\* are skipped
generateCipherDict_enc_EnabledOnly(o) ==
    LET eff_shift == calculateEffectiveShift(o.shift_amount, 26)
        num_shift == IF o.enc_numbers
                     THEN calculateEffectiveShift(o.shift_amount, Len(ORIG_NUMBERS))
                     ELSE o.numbers_shift
        pun_shift == IF o.enc_puncts
                     THEN calculateEffectiveShift(o.shift_amount, Len(ORIG_PUNCTS))
                     ELSE o.puncts_shift
        d1 == forEachPut(o.cipher_dict, ORIG_UPPER, cshift(ORIG_UPPER, eff_shift))
        d2 == forEachPut(d1, ORIG_LOWER, cshift(ORIG_LOWER, eff_shift))
        d3 == IF o.enc_numbers
              THEN forEachPut(d2, ORIG_NUMBERS, cshift(ORIG_NUMBERS, num_shift))
              ELSE d2
        d4 == IF o.enc_puncts
              THEN forEachPut(d3, ORIG_PUNCTS, cshift(ORIG_PUNCTS, pun_shift))
              ELSE d3
    IN  [o EXCEPT !.effective_shift = eff_shift,
                  !.numbers_shift   = num_shift,
                  !.puncts_shift    = pun_shift,
                  !.cipher_dict     = d4]

\* the encipher program: original symbol -> shifted symbol
generateCipherDict_enc(o) ==
    LET eff_shift == calculateEffectiveShift(o.shift_amount, 26)
        num_shift   == IF o.enc_numbers
                           THEN calculateEffectiveShift(o.shift_amount, Len(ORIG_NUMBERS))
                           ELSE o.numbers_shift
        pun_shift    == IF o.enc_puncts
                           THEN calculateEffectiveShift(o.shift_amount, Len(ORIG_PUNCTS))
                           ELSE o.puncts_shift
        shifted_upper   == cshift(ORIG_UPPER, eff_shift)
        shifted_lower   == cshift(ORIG_LOWER, eff_shift)
        shifted_numbers == cshift(ORIG_NUMBERS, num_shift)
        shifted_puncts  == cshift(ORIG_PUNCTS, pun_shift)
        d1 == forEachPut(o.cipher_dict, ORIG_UPPER, shifted_upper)
        d2 == forEachPut(d1, ORIG_LOWER, shifted_lower)
        d3 == forEachPut(d2, ORIG_NUMBERS, shifted_numbers)
        d4 == forEachPut(d3, ORIG_PUNCTS, shifted_puncts)
    IN  [o EXCEPT !.effective_shift = eff_shift,
                  !.numbers_shift   = num_shift,
                  !.puncts_shift    = pun_shift,
                  !.cipher_dict     = d4]

\* mutant of generateCipherDict_decA: the enciphering direction, original
\* symbol -> shifted symbol
generateCipherDict_decA_Forward(o) ==
    LET red_shift_len == calcReducedShift(o.orig_shift_len, 26)
        dig_shift_len == IF o.decipher_flags[2] = TRUE
                         THEN calcReducedShift(o.orig_shift_len, Len(ORIG_DIGITS))
                         ELSE o.digits_shift_len
        p_shift_len   == IF o.decipher_flags[3] = TRUE
                         THEN calcReducedShift(o.orig_shift_len,
                                               Len(ORIG_PUNCTUATION_SYMBOLS))
                         ELSE o.puncts_shift_len
        d1 == forEachPut(o.cipher_dict, ORIG_UPPERCASE,
                         cshift(ORIG_UPPERCASE, red_shift_len))
        d2 == forEachPut(d1, ORIG_LOWERCASE, cshift(ORIG_LOWERCASE, red_shift_len))
        d3 == forEachPut(d2, ORIG_DIGITS, cshift(ORIG_DIGITS, dig_shift_len))
        d4 == forEachPut(d3, ORIG_PUNCTUATION_SYMBOLS,
                         cshift(ORIG_PUNCTUATION_SYMBOLS, p_shift_len))
    IN  [o EXCEPT !.reduced_shift_len = red_shift_len,
                  !.digits_shift_len  = dig_shift_len,
                  !.puncts_shift_len  = p_shift_len,
                  !.cipher_dict       = d4]

\* decipher program A: shifted symbol -> original symbol, classes by bitset
generateCipherDict_decA(o) ==
    LET red_shift_len == calcReducedShift(o.orig_shift_len, 26)
        dig_shift_len  == IF o.decipher_flags[2] = TRUE
                             THEN calcReducedShift(o.orig_shift_len, Len(ORIG_DIGITS))
                             ELSE o.digits_shift_len
        p_shift_len  == IF o.decipher_flags[3] = TRUE
                             THEN calcReducedShift(o.orig_shift_len,
                                                   Len(ORIG_PUNCTUATION_SYMBOLS))
                             ELSE o.puncts_shift_len
        shifted_uppercase == cshift(ORIG_UPPERCASE, red_shift_len)
        shifted_lowercase == cshift(ORIG_LOWERCASE, red_shift_len)
        shifted_digits    == cshift(ORIG_DIGITS, dig_shift_len)
        shifted_puncts    == cshift(ORIG_PUNCTUATION_SYMBOLS, p_shift_len)
        d1 == forEachPut(o.cipher_dict, shifted_uppercase, ORIG_UPPERCASE)
        d2 == forEachPut(d1, shifted_lowercase, ORIG_LOWERCASE)
        d3 == forEachPut(d2, shifted_digits, ORIG_DIGITS)
        d4 == forEachPut(d3, shifted_puncts, ORIG_PUNCTUATION_SYMBOLS)
    IN  [o EXCEPT !.reduced_shift_len = red_shift_len,
                  !.digits_shift_len  = dig_shift_len,
                  !.puncts_shift_len  = p_shift_len,
                  !.cipher_dict       = d4]

\* decipher program B: shifted symbol -> original symbol, classes by bools
generateCipherDict_decB(o) ==
    LET red_shift_len == calcReducedShift(o.orig_shift_len, 26)
        dig_shift_len  == IF o.dec_numbers
                             THEN calcReducedShift(o.orig_shift_len, Len(ORIG_DIGITS))
                             ELSE o.digits_shift_len
        p_shift_len  == IF o.dec_puncts
                             THEN calcReducedShift(o.orig_shift_len,
                                                   Len(ORIG_PUNCTUATION_SYMBOLS))
                             ELSE o.puncts_shift_len
        shifted_uppercase == cshift(ORIG_UPPERCASE, red_shift_len)
        shifted_lowercase == cshift(ORIG_LOWERCASE, red_shift_len)
        shifted_digits    == cshift(ORIG_DIGITS, dig_shift_len)
        shifted_puncts    == cshift(ORIG_PUNCTUATION_SYMBOLS, p_shift_len)
        d1 == forEachPut(o.cipher_dict, shifted_uppercase, ORIG_UPPERCASE)
        d2 == forEachPut(d1, shifted_lowercase, ORIG_LOWERCASE)
        d3 == forEachPut(d2, shifted_digits, ORIG_DIGITS)
        d4 == forEachPut(d3, shifted_puncts, ORIG_PUNCTUATION_SYMBOLS)
    IN  [o EXCEPT !.reduced_shift_len = red_shift_len,
                  !.digits_shift_len  = dig_shift_len,
                  !.puncts_shift_len  = p_shift_len,
                  !.cipher_dict       = d4]

(***************************************************************************)
(* Files and streams                                                       *)
(***************************************************************************)
\* the paths of a session
InPath == "in.txt"
EncOutPath == "out.enc"
DecOutPath == "out.dec"

RECURSIVE PathComponents(_, _, _)
\* the components of a path, from the character at index n on: what stands
\* between the '/' characters; cur is the component being read
PathComponents(chars, n, cur) ==
    IF n > Len(chars) THEN <<cur>>
    ELSE IF chars[n] = "/" THEN <<cur>> \o PathComponents(chars, n + 1, <<>>)
    ELSE PathComponents(chars, n + 1, Append(cur, chars[n]))

\* the directories from the root to the working directory, by their names
CwdPath == << <<"a">>, <<"b">>, <<"c", "w", "d">> >>

\* where the resolution of a path stands.  kind "dir": in a directory on the
\* way from the root to the working directory, up levels above the working
\* directory (0 the working directory itself, -1 the root); kind "entry":
\* at the entry name of that directory, which is no directory (a file, or
\* no file yet); kind "none": nowhere
At_cwd == [kind |-> "dir", up |-> 0, name |-> <<>>]
At_root == [kind |-> "dir", up |-> -1, name |-> <<>>]
At_none == [kind |-> "none", up |-> 0, name |-> <<>>]

\* the number of directories between the root and the directory at
DepthOf(at) == IF at.up = -1 THEN 0 ELSE Len(CwdPath) - at.up

\* the directory on the way to the working directory that has depth
\* directories between the root and itself
AtDepth(depth) ==
    IF depth = 0 THEN At_root
    ELSE [kind |-> "dir", up |-> Len(CwdPath) - depth, name |-> <<>>]

\* the resolution takes one component.  An empty component and "." stay in
\* a directory; ".." leaves it for the one above (the root is above
\* itself); the name of the next directory on the way to the working
\* directory leads into that directory; any other name is an entry of the
\* directory: a session has files and no directories besides those from
\* the root to the working directory.  A file has no entries
PathStep(at, component) ==
    IF at.kind # "dir" THEN At_none
    ELSE IF component \in {<<>>, <<".">>} THEN at
    ELSE IF component = <<".", ".">>
         THEN IF DepthOf(at) = 0 THEN at ELSE AtDepth(DepthOf(at) - 1)
    ELSE IF DepthOf(at) < Len(CwdPath) /\ component = CwdPath[DepthOf(at) + 1]
         THEN AtDepth(DepthOf(at) + 1)
    ELSE [kind |-> "entry", up |-> at.up, name |-> component]

RECURSIVE PathWalk(_, _, _)
PathWalk(at, components, n) ==
    IF n > Len(components) THEN at
    ELSE PathWalk(PathStep(at, components[n]), components, n + 1)

\* what the file system resolves a path to: the empty path is no path, a
\* path that begins with '/' starts at the root, any other in the working
\* directory
Resolve(path) ==
    LET chars == Chars(path)
    IN  IF chars = <<>> THEN At_none
        ELSE PathWalk(IF chars[1] = "/" THEN At_root ELSE At_cwd,
                      PathComponents(chars, 1, <<>>), 1)

RECURSIVE UpPrefix(_)
\* the way from the working directory to the directory up levels above it
UpPrefix(up) ==
    IF up = -1 THEN <<"/">>
    ELSE IF up = 0 THEN <<>>
    ELSE <<".", ".", "/">> \o UpPrefix(up - 1)

\* the string of the characters name, path itself when they are its own
FileNamed(name, path) == IF name = Chars(path) THEN path ELSE Str(name)

\* the name under which a session keeps the file at the entry at, which
\* path resolves to: the shortest path to it from the working directory
\* (from the root for an entry of the root)
FileAt(at, path) == FileNamed(UpPrefix(at.up) \o at.name, path)

\* the name under which a session keeps the file a path resolves to
FileOf(path) == FileAt(Resolve(path), path)

\* std::ofstream(path) opens (creates or truncates) the file the path
\* resolves to: not the empty path, not a directory, and not a path through
\* a file or through a directory that does not exist.  Directories take new
\* files: access rights are not part of a session
Writable(path) == Resolve(path).kind = "entry"

NoFiles == [p \in {} |-> <<>>]

\* fsys::exists(path): the path resolves to a file or to a directory
exists(files, path) ==
    LET at == Resolve(path)
    IN  \/ at.kind = "dir"
        \/ at.kind = "entry" /\ FileOf(path) \in DOMAIN files

\* what an std::ifstream of the path reads: the bytes of the file the path
\* resolves to, nothing of a directory
contents(files, path) ==
    IF Resolve(path).kind = "entry" /\ FileOf(path) \in DOMAIN files
    THEN files[FileOf(path)]
    ELSE <<>>

\* the file system after std::ofstream(path): the file the path resolves to
\* exists and is empty when the stream could be opened
ofstreamOpen(files, path) ==
    IF Writable(path)
    THEN (FileOf(path) :> <<>>) @@ files
    ELSE files

\* mutant of ofstreamWriteLine: the line is written without the endl
ofstreamWriteLine_NoEndl(files, path, is_open, outstr) ==
    IF is_open
    THEN [files EXCEPT ![FileOf(path)] = files[FileOf(path)] \o outstr]
    ELSE files

\* ofile << outstr << endl on a stream that is_open or not
ofstreamWriteLine(files, path, is_open, outstr) ==
    IF is_open
    THEN [files EXCEPT ![FileOf(path)] = files[FileOf(path)] \o outstr \o <<NL>>]
    ELSE files

\* the index of the first '\n' of content after position pos, 0 when none
NextNL(content, pos) ==
    LET nls == {j \in (pos + 1)..Len(content) : content[j] = NL}
    IN  IF nls = {} THEN 0 ELSE CHOOSE j \in nls : \A k \in nls : j <= k

\* mutant of getline: the terminator is stored in the line
getline_KeepNL(content, pos) ==
    IF pos >= Len(content)
    THEN [ok |-> FALSE, origstr |-> <<>>, pos |-> pos]
    ELSE LET j == NextNL(content, pos)
         IN  IF j = 0
             THEN [ok |-> TRUE, origstr |-> SubSeq(content, pos + 1, Len(content)),
                   pos |-> Len(content)]
             ELSE [ok |-> TRUE, origstr |-> SubSeq(content, pos + 1, j),
                   pos |-> j]

\* std::getline(ifile, origstr) with pos bytes of content consumed: fails
\* when no byte is left; otherwise extracts up to the next '\n', which is
\* consumed and not stored, or up to the end of the file
getline(content, pos) ==
    IF pos >= Len(content)
    THEN [ok |-> FALSE, origstr |-> <<>>, pos |-> pos]
    ELSE LET j == NextNL(content, pos)
         IN  IF j = 0
             THEN [ok |-> TRUE, origstr |-> SubSeq(content, pos + 1, Len(content)),
                   pos |-> Len(content)]
             ELSE [ok |-> TRUE, origstr |-> SubSeq(content, pos + 1, j - 1),
                   pos |-> j]

\* if(cipher_dict.contains(c)) outstr.push_back(cipher_dict[c]);
\* else outstr.push_back(c);
transformByte(cipher_dict, c) ==
    IF c \in DOMAIN cipher_dict THEN cipher_dict[c] ELSE c

RECURSIVE transformLine(_, _, _, _)
\* for(size_t n = 0; n < origstr.size(); ++n, ...) from index n (1-based)
transformLine(cipher_dict, origstr, outstr, n) ==
    IF n > Len(origstr) THEN outstr
    ELSE transformLine(cipher_dict, origstr,
                       Append(outstr, transformByte(cipher_dict, origstr[n])), n + 1)

\* std::map::operator[]: the value of key c and the map after the call; a
\* key the map does not hold is inserted with a value-initialized char
map_subscript(cipher_dict, c) ==
    IF c \in DOMAIN cipher_dict
    THEN [dict |-> cipher_dict, value |-> cipher_dict[c]]
    ELSE [dict |-> cipher_dict @@ (c :> 0), value |-> 0]

\* mutant of dictAfterByte: the table is subscripted without the test of
\* contains
dictAfterByte_NoContains(cipher_dict, c) == map_subscript(cipher_dict, c).dict

\* the table after the body of the for loop for the byte c: cipher_dict[c]
\* is evaluated when contains(c) holds and never otherwise
dictAfterByte(cipher_dict, c) ==
    IF c \in DOMAIN cipher_dict THEN map_subscript(cipher_dict, c).dict
    ELSE cipher_dict

RECURSIVE dictAfterLine(_, _, _)
\* the table after the for loop over origstr from index n (1-based) on
dictAfterLine(cipher_dict, origstr, n) ==
    IF n > Len(origstr) THEN cipher_dict
    ELSE dictAfterLine(dictAfterByte(cipher_dict, origstr[n]), origstr, n + 1)

\* the locals of encipherFileText / decipherFileText before the call
IdleRun ==
    [ ifilepath |-> "", ifile_open |-> FALSE, ipos |-> 0,
      ofilepath |-> "", ofile_open |-> FALSE, num_chrs_read |-> 0 ]

(***************************************************************************)
(* main and parseCommandLine: what both keep besides the option object     *)
(***************************************************************************)
\* no exception is in flight
NoThrow == [type |-> "none", token |-> "", chr |-> "", path |-> ""]

\* std::invalid_argument(ia_errmsg): the message holds the token
InvalidArgument(curropt) ==
    [type |-> "invalid_argument", token |-> curropt, chr |-> "", path |-> ""]

\* std::invalid_argument(sco_errmsg): the message holds the character and
\* the token
InvalidSingleChar(curropt, c) ==
    [type |-> "invalid_argument", token |-> curropt, chr |-> c, path |-> ""]

\* what std::stoi and std::vector::at throw: the message holds no token
StdThrow(type) ==
    [type |-> type, token |-> "", chr |-> "", path |-> ""]

\* fsys::filesystem_error(errmsg, path, ec)
FilesystemError(path) ==
    [type |-> "filesystem_error", token |-> "", chr |-> "", path |-> path]

\* a line of output: the usage text, the help text, e.what(), the line
\* "Read n characters from the input file." or the log with its count
OutLine(stream, text, n) == [stream |-> stream, text |-> text, n |-> n]

\* the locals of main and parseCommandLine of the encipher program and of
\* decipher program B before parseCommandLine is called
MainInit(raw_cmdln) ==
    [ raw_cmdln     |-> raw_cmdln,
      opt_number    |-> 0,
      parse_results |-> 0,
      examined      |-> {},
      printed       |-> <<>>,
      thrown        |-> NoThrow ]

\* the default member initializers of struct CipherOptions
CipherOptions ==
    [ program_name      |-> "",
      prog_name_stripped |-> "",
      infilename        |-> "",
      outfilename       |-> "",
      use_default_oname |-> TRUE,
      shift_amount      |-> DefaultShift,
      effective_shift   |-> DefaultShift,
      numbers_shift     |-> 0,
      puncts_shift      |-> 0,
      enc_numbers       |-> FALSE,
      enc_puncts        |-> FALSE,
      cipher_dict       |-> EmptyDict,
      nbytes_file       |-> 0,
      display_log_info  |-> FALSE ]

(***************************************************************************)
(* parseCommandLine of the encipher program                                *)
(***************************************************************************)
\* usr_cmdln.at(k) can be read: k is an index of the vector
InRange(m, k) == k < Len(m.raw_cmdln)

\* usr_cmdln.at(k), k counted from 0
At(m, k) == m.raw_cmdln[k + 1]

RECURSIVE encSingleChars_AIsN(_, _, _)
\* mutant of encSingleChars: the character a sets the digit flag alone
encSingleChars_AIsN(st, curropt, n) ==
    IF n >= Len(Chars(curropt)) THEN st
    ELSE LET c == Chars(curropt)[n + 1]
             o == st.o
             m == st.m
         IN  CASE c = "a" ->
                    encSingleChars_AIsN([st EXCEPT !.o = [o EXCEPT !.enc_numbers = TRUE]],
                                   curropt, n + 1)
               [] c = "n" ->
                    encSingleChars_AIsN([st EXCEPT !.o = [o EXCEPT !.enc_numbers = TRUE]],
                                   curropt, n + 1)
               [] c = "p" ->
                    encSingleChars_AIsN([st EXCEPT !.o = [o EXCEPT !.enc_puncts = TRUE]],
                                   curropt, n + 1)
               [] c = "l" ->
                    encSingleChars_AIsN([st EXCEPT !.o = [o EXCEPT !.display_log_info = TRUE]],
                                   curropt, n + 1)
               [] c = "h" ->
                    encSingleChars_AIsN(
                        [st EXCEPT !.m = [m EXCEPT
                            !.printed = Append(m.printed, OutLine("cout", "help", 0)),
                            !.parse_results = 1,
                            !.opt_number = Len(m.raw_cmdln)]],
                        curropt, n + 1)
               [] OTHER ->
                    [ o |-> [o EXCEPT !.display_log_info = FALSE,
                                      !.enc_numbers = FALSE,
                                      !.enc_puncts = FALSE],
                      m |-> [m EXCEPT !.opt_number = Len(m.raw_cmdln),
                                      !.thrown = InvalidSingleChar(curropt, c)] ]

RECURSIVE encSingleChars(_, _, _)
\* for(size_t n = 1; n < curropt.size(); ++n) of the last else branch, from
\* the character at index n (counted from 0) on; st holds the option object
\* o and the locals m
encSingleChars(st, curropt, n) ==
    IF n >= Len(Chars(curropt)) THEN st
    ELSE LET c == Chars(curropt)[n + 1]
             o == st.o
             m == st.m
         IN  CASE c = "a" ->
                    encSingleChars([st EXCEPT !.o = [o EXCEPT !.enc_numbers = TRUE,
                                                              !.enc_puncts = TRUE]],
                                   curropt, n + 1)
               [] c = "n" ->
                    encSingleChars([st EXCEPT !.o = [o EXCEPT !.enc_numbers = TRUE]],
                                   curropt, n + 1)
               [] c = "p" ->
                    encSingleChars([st EXCEPT !.o = [o EXCEPT !.enc_puncts = TRUE]],
                                   curropt, n + 1)
               [] c = "l" ->
                    encSingleChars([st EXCEPT !.o = [o EXCEPT !.display_log_info = TRUE]],
                                   curropt, n + 1)
               [] c = "h" ->
                    encSingleChars(
                        [st EXCEPT !.m = [m EXCEPT
                            !.printed = Append(m.printed, OutLine("cout", "help", 0)),
                            !.parse_results = 1,
                            !.opt_number = Len(m.raw_cmdln)]],
                        curropt, n + 1)
               [] OTHER ->
                    [ o |-> [o EXCEPT !.display_log_info = FALSE,
                                      !.enc_numbers = FALSE,
                                      !.enc_puncts = FALSE],
                      m |-> [m EXCEPT !.opt_number = Len(m.raw_cmdln),
                                      !.thrown = InvalidSingleChar(curropt, c)] ]

\* one iteration of while( opt_number < usr_cmdln.size() ): the option
\* object and the locals after it; thrown tells whether it threw
encParseOption(o, m0) ==
    LET curropt == At(m0, m0.opt_number)
        m == [m0 EXCEPT !.examined = m0.examined \cup {m0.opt_number}]
        value == m.opt_number + 1
        mv == [m EXCEPT !.examined = m.examined \cup {value},
                        !.opt_number = m.opt_number + 2]
        outOfRange == [o |-> o, m |-> [m EXCEPT !.thrown = StdThrow("out_of_range")]]
    IN  CASE curropt \in {"-i", "--ifile"} ->
               IF ~InRange(m, value) THEN outOfRange
               ELSE [o |-> [o EXCEPT !.infilename = At(m, value)], m |-> mv]
          [] curropt \in {"-o", "--ofile"} ->
               IF ~InRange(m, value) THEN outOfRange
               ELSE [o |-> [o EXCEPT !.outfilename = At(m, value),
                                     !.use_default_oname = FALSE],
                     m |-> mv]
          [] curropt \in {"-s", "--shift-amount"} ->
               IF ~InRange(m, value) THEN outOfRange
               ELSE LET r == stoi(At(m, value))
                    IN  IF r.thrown # "none"
                        THEN [o |-> o,
                              m |-> [m EXCEPT !.examined = m.examined \cup {value},
                                              !.thrown = StdThrow(r.thrown)]]
                        ELSE [o |-> [o EXCEPT !.shift_amount = r.value], m |-> mv]
          [] curropt = "--shift-nums" ->
               [o |-> [o EXCEPT !.enc_numbers = TRUE],
                m |-> [m EXCEPT !.opt_number = m.opt_number + 1]]
          [] curropt = "--shift-puncts" ->
               [o |-> [o EXCEPT !.enc_puncts = TRUE],
                m |-> [m EXCEPT !.opt_number = m.opt_number + 1]]
          [] curropt = "--shift-all" ->
               [o |-> [o EXCEPT !.enc_numbers = TRUE, !.enc_puncts = TRUE],
                m |-> [m EXCEPT !.opt_number = m.opt_number + 1]]
          [] curropt = "--help" ->
               [o |-> o,
                m |-> [m EXCEPT !.parse_results = 1,
                                !.printed = Append(m.printed, OutLine("cout", "help", 0)),
                                !.opt_number = Len(m.raw_cmdln)]]
          [] curropt = "--show-log" ->
               [o |-> [o EXCEPT !.display_log_info = TRUE],
                m |-> [m EXCEPT !.opt_number = m.opt_number + 1]]
          [] OTHER ->
               IF find_last_of(curropt, "-") > 0
               THEN [o |-> o, m |-> [m EXCEPT !.thrown = InvalidArgument(curropt)]]
               ELSE LET st == encSingleChars([o |-> o, m |-> m], curropt, 1)
                    IN  IF st.m.thrown # NoThrow THEN st
                        ELSE [st EXCEPT !.m = [st.m EXCEPT
                                                 !.opt_number = st.m.opt_number + 1]]

(***************************************************************************)
(* parseCommandLine of decipher program A (deque and bitset)               *)
(***************************************************************************)
\* the default member initializers of struct DecipherCtrlOpts of program A
DecipherCtrlOptsA ==
    [ program_name      |-> "",
      prog_name_stripped |-> "",
      infilename        |-> "",
      outfilename       |-> "",
      orig_shift_len    |-> DefaultShift,
      reduced_shift_len |-> DefaultShift,
      digits_shift_len  |-> 0,
      puncts_shift_len  |-> 0,
      cipher_dict       |-> EmptyDict,
      nbytes_file       |-> 0,
      decipher_flags    |-> InitialDecipherFlags ]

\* the locals of main and parseCommandLine of program A before the call
MainInitA(raw_cmdln) ==
    [ raw_cmdln     |-> raw_cmdln,
      cmdln_deq     |-> <<>>,
      parse_results |-> "CMDLN_OK",
      examined      |-> {},
      printed       |-> <<>>,
      thrown        |-> NoThrow,
      undefined     |-> FALSE ]

\* what a run can do once its behaviour is undefined: end with either exit
\* code, be killed by a signal, or go on ("undefined") in a way the source
\* does not determine, of which nothing is known, not even that it ends
UndefinedOutcomes == {"exit0", "exit1", "signal", "undefined"}

\* what the copy of a string of garbage length throws: std::length_error
\* from the string, std::bad_alloc from the allocation
CopyThrows == {"length_error", "bad_alloc"}

RECURSIVE parseSingleCharOptionsLoop(_, _, _)
\* while( arg_char_pos != cmdlnSingles.end() ) from the character at index n
\* (counted from 0) on; st holds the option object o and parse_results
parseSingleCharOptionsLoop(st, cmdlnSingles, n) ==
    IF n >= Len(Chars(cmdlnSingles)) THEN st
    ELSE LET c == Chars(cmdlnSingles)[n + 1]
             f == st.o.decipher_flags
             next ==
               CASE c = "a" ->
                      [st EXCEPT !.o.decipher_flags = [f EXCEPT ![2] = TRUE, ![3] = TRUE]]
                 [] c = "n" ->
                      [st EXCEPT !.o.decipher_flags = [f EXCEPT ![2] = TRUE]]
                 [] c = "p" ->
                      [st EXCEPT !.o.decipher_flags = [f EXCEPT ![3] = TRUE]]
                 [] c = "l" ->
                      [st EXCEPT !.o.decipher_flags = [f EXCEPT ![7] = TRUE]]
                 [] c = "h" ->
                      [st EXCEPT !.o.decipher_flags = [f EXCEPT ![0] = TRUE],
                                 !.parse_results = "CMDLN_HELP_REQ"]
                 [] OTHER ->
                      [st EXCEPT !.o.decipher_flags =
                                     [f EXCEPT ![2] = FALSE, ![3] = FALSE,
                                               ![7] = FALSE, ![0] = FALSE],
                                 !.parse_results = "CMDLN_USER_ERROR"]
         IN  parseSingleCharOptionsLoop(next, cmdlnSingles, n + 1)

\* parseSingleCharOptions of program A: the option object and the code
parseSingleCharOptions(cmdlnSingles, o) ==
    IF find_last_of(cmdlnSingles, "-") > 0
    THEN [o |-> o, parse_results |-> "CMDLN_USER_ERROR"]
    ELSE parseSingleCharOptionsLoop([o |-> o, parse_results |-> "CMDLN_OK"],
                                    cmdlnSingles, 1)

\* cmdln_deq.pop_front()
pop_front(deq) == SubSeq(deq, 2, Len(deq))

\* what the copy of front() of an empty deque holds when the copy does not
\* end the run: the builds read an empty string from the unused slot
EmptyFront == ""

\* one iteration of while( not cmdln_deq.empty() ) of program A.  front() of
\* an empty deque has undefined behaviour: undefined tells it was called,
\* and examined then holds the index after the last token.  After -s the
\* copy of front() is handed to std::stoi before the deque is touched again
decAParseOption(o, m0) ==
    LET curr_arg == Head(m0.cmdln_deq)
        idx == Len(m0.raw_cmdln) - Len(m0.cmdln_deq)
        m == [m0 EXCEPT !.examined = m0.examined \cup {idx}]
        deq1 == pop_front(m.cmdln_deq)
        mv == [m EXCEPT !.examined = m.examined \cup {idx + 1},
                        !.cmdln_deq = pop_front(deq1)]
        undef == [o |-> o,
                  m |-> [m EXCEPT !.examined = m.examined \cup {idx + 1},
                                  !.cmdln_deq = deq1,
                                  !.undefined = TRUE]]
        f == o.decipher_flags
    IN  CASE curr_arg \in {"-i", "--ifile"} ->
               IF deq1 = <<>> THEN undef
               ELSE [o |-> [o EXCEPT !.infilename = Head(deq1)], m |-> mv]
          [] curr_arg \in {"-o", "--ofile"} ->
               IF deq1 = <<>> THEN undef
               ELSE [o |-> [o EXCEPT !.outfilename = Head(deq1),
                                     !.decipher_flags = [f EXCEPT ![1] = FALSE]],
                     m |-> mv]
          [] curr_arg \in {"-s", "--shift-amount"} ->
               IF deq1 = <<>>
               THEN [undef EXCEPT !.m.thrown = StdThrow(stoi(EmptyFront).thrown)]
               ELSE LET r == stoi(Head(deq1))
                    IN  IF r.thrown # "none"
                        THEN [o |-> o,
                              m |-> [m EXCEPT !.examined = m.examined \cup {idx + 1},
                                              !.cmdln_deq = deq1,
                                              !.thrown = StdThrow(r.thrown)]]
                        ELSE [o |-> [o EXCEPT !.orig_shift_len = r.value], m |-> mv]
          [] curr_arg = "--shift-numbers" ->
               [o |-> [o EXCEPT !.decipher_flags = [f EXCEPT ![2] = TRUE]],
                m |-> [m EXCEPT !.cmdln_deq = deq1]]
          [] curr_arg = "--shift-puncts" ->
               [o |-> [o EXCEPT !.decipher_flags = [f EXCEPT ![3] = TRUE]],
                m |-> [m EXCEPT !.cmdln_deq = deq1]]
          [] curr_arg = "--shift-all" ->
               [o |-> [o EXCEPT !.decipher_flags = [f EXCEPT ![2] = TRUE, ![3] = TRUE]],
                m |-> [m EXCEPT !.cmdln_deq = deq1]]
          [] curr_arg = "--help" ->
               [o |-> [o EXCEPT !.decipher_flags = [f EXCEPT ![0] = TRUE]],
                m |-> [m EXCEPT !.parse_results = "CMDLN_HELP_REQ",
                                !.cmdln_deq = <<>>]]
          [] curr_arg = "--show-log" ->
               [o |-> [o EXCEPT !.decipher_flags = [f EXCEPT ![7] = TRUE]],
                m |-> [m EXCEPT !.cmdln_deq = deq1]]
          [] OTHER ->
               LET r == parseSingleCharOptions(curr_arg, o)
                   mr == [m EXCEPT !.parse_results = r.parse_results]
               IN  CASE r.parse_results = "CMDLN_USER_ERROR" ->
                          [o |-> r.o,
                           m |-> [mr EXCEPT !.cmdln_deq = <<>>,
                                            !.thrown = InvalidArgument(curr_arg)]]
                     [] r.parse_results \in {"CMDLN_HELP_REQ", "CMDLN_USAGE_REQ"} ->
                          [o |-> r.o, m |-> [mr EXCEPT !.cmdln_deq = <<>>]]
                     [] OTHER ->
                          [o |-> r.o, m |-> [mr EXCEPT !.cmdln_deq = deq1]]

(***************************************************************************)
(* parseCommandLine of decipher program B (index and bools)                *)
(***************************************************************************)
\* the default member initializers of struct DecipherCtrlOpts of program B
DecipherCtrlOptsB ==
    [ program_name      |-> "",
      prog_name_stripped |-> "",
      infilename        |-> "",
      outfilename       |-> "",
      use_default_oname |-> TRUE,
      orig_shift_len    |-> DefaultShift,
      reduced_shift_len |-> DefaultShift,
      digits_shift_len  |-> 0,
      puncts_shift_len  |-> 0,
      dec_numbers       |-> FALSE,
      dec_puncts        |-> FALSE,
      cipher_dict       |-> EmptyDict,
      nbytes_file       |-> 0,
      display_log_info  |-> FALSE,
      decipher_flags    |-> InitialDecipherFlags ]

RECURSIVE decBSingleChars(_, _, _)
\* for(size_t n = 1; n < curropt.size(); ++n) of the last else branch, from
\* the character at index n (counted from 0) on; st holds the option object
\* o and the locals m
decBSingleChars(st, curropt, n) ==
    IF n >= Len(Chars(curropt)) THEN st
    ELSE LET c == Chars(curropt)[n + 1]
             o == st.o
             m == st.m
         IN  CASE c = "a" ->
                    decBSingleChars([st EXCEPT !.o = [o EXCEPT !.dec_numbers = TRUE,
                                                              !.dec_puncts = TRUE]],
                                   curropt, n + 1)
               [] c = "n" ->
                    decBSingleChars([st EXCEPT !.o = [o EXCEPT !.dec_numbers = TRUE]],
                                   curropt, n + 1)
               [] c = "p" ->
                    decBSingleChars([st EXCEPT !.o = [o EXCEPT !.dec_puncts = TRUE]],
                                   curropt, n + 1)
               [] c = "l" ->
                    decBSingleChars([st EXCEPT !.o = [o EXCEPT !.display_log_info = TRUE]],
                                   curropt, n + 1)
               [] c = "h" ->
                    decBSingleChars(
                        [st EXCEPT !.m = [m EXCEPT
                            !.printed = Append(m.printed, OutLine("cout", "help", 0)),
                            !.parse_results = 1,
                            !.opt_number = Len(m.raw_cmdln)]],
                        curropt, n + 1)
               [] OTHER ->
                    [ o |-> [o EXCEPT !.display_log_info = FALSE,
                                      !.dec_numbers = FALSE,
                                      !.dec_puncts = FALSE,
                                      !.decipher_flags =
                                          [o.decipher_flags EXCEPT
                                              ![7] = FALSE, ![2] = FALSE, ![3] = FALSE]],
                      m |-> [m EXCEPT !.opt_number = Len(m.raw_cmdln),
                                      !.thrown = InvalidSingleChar(curropt, c)] ]

\* one iteration of while( opt_number < usr_cmdln.size() ): the option
\* object and the locals after it; thrown tells whether it threw
decBParseOption(o, m0) ==
    LET curropt == At(m0, m0.opt_number)
        m == [m0 EXCEPT !.examined = m0.examined \cup {m0.opt_number}]
        value == m.opt_number + 1
        mv == [m EXCEPT !.examined = m.examined \cup {value},
                        !.opt_number = m.opt_number + 2]
        outOfRange == [o |-> o, m |-> [m EXCEPT !.thrown = StdThrow("out_of_range")]]
    IN  CASE curropt \in {"-i", "--ifile"} ->
               IF ~InRange(m, value) THEN outOfRange
               ELSE [o |-> [o EXCEPT !.infilename = At(m, value)], m |-> mv]
          [] curropt \in {"-o", "--ofile"} ->
               IF ~InRange(m, value) THEN outOfRange
               ELSE [o |-> [o EXCEPT !.outfilename = At(m, value),
                                     !.use_default_oname = FALSE],
                     m |-> mv]
          [] curropt \in {"-s", "--shift-amount"} ->
               IF ~InRange(m, value) THEN outOfRange
               ELSE LET r == stoi(At(m, value))
                    IN  IF r.thrown # "none"
                        THEN [o |-> o,
                              m |-> [m EXCEPT !.examined = m.examined \cup {value},
                                              !.thrown = StdThrow(r.thrown)]]
                        ELSE [o |-> [o EXCEPT !.orig_shift_len = r.value], m |-> mv]
          [] curropt = "--shift-nums" ->
               [o |-> [o EXCEPT !.dec_numbers = TRUE],
                m |-> [m EXCEPT !.opt_number = m.opt_number + 1]]
          [] curropt = "--shift-puncts" ->
               [o |-> [o EXCEPT !.dec_puncts = TRUE],
                m |-> [m EXCEPT !.opt_number = m.opt_number + 1]]
          [] curropt = "--shift-all" ->
               [o |-> [o EXCEPT !.dec_numbers = TRUE, !.dec_puncts = TRUE],
                m |-> [m EXCEPT !.opt_number = m.opt_number + 1]]
          [] curropt = "--help" ->
               [o |-> o,
                m |-> [m EXCEPT !.parse_results = 1,
                                !.printed = Append(m.printed, OutLine("cout", "help", 0)),
                                !.opt_number = Len(m.raw_cmdln)]]
          [] curropt = "--show-log" ->
               [o |-> [o EXCEPT !.display_log_info = TRUE],
                m |-> [m EXCEPT !.opt_number = m.opt_number + 1]]
          [] OTHER ->
               IF find_last_of(curropt, "-") > 0
               THEN [o |-> o, m |-> [m EXCEPT !.thrown = InvalidArgument(curropt)]]
               ELSE LET st == decBSingleChars([o |-> o, m |-> m], curropt, 1)
                    IN  IF st.m.thrown # NoThrow THEN st
                        ELSE [st EXCEPT !.m = [st.m EXCEPT
                                                 !.opt_number = st.m.opt_number + 1]]

(***************************************************************************)
(* The encipher run: main of src/unnamed/part_000 from the return of       *)
(* parseCommandLine                                                        *)
(***************************************************************************)
\* the exception types main has a catch clause for: the encipher main,
\* which prints on cout, has none for std::out_of_range
CatchClauses(stream) ==
    IF stream = "cout"
    THEN {"invalid_argument", "filesystem_error"}
    ELSE {"invalid_argument", "out_of_range", "filesystem_error"}

\* main catches the exception and returns 1: a catch clause of its type
\* prints e.what(), catch(...) prints the line "Unexpected error
\* encountered. Program terminated."
Caught(m, thrown, stream) ==
    [m EXCEPT !.thrown = thrown,
              !.printed = Append(m.printed,
                                 OutLine(stream,
                                         IF thrown.type \in CatchClauses(stream)
                                         THEN "what" ELSE "unexpected",
                                         0))]

\* parseCommandLine up to the loop: the program names are stored; a command
\* line of the program name alone prints the usage and returns 1, and main
\* returns 0
\* mutant of EncParseBegin: a command line of the program name alone is
\* parsed like any other
EncParseBegin_NoUsage ==
    /\ encpc = "start"
    /\ encopts' = [encopts EXCEPT
           !.program_name = At(encmain, 0),
           !.prog_name_stripped = filename(At(encmain, 0))]
    /\ encmain' = [encmain EXCEPT !.examined = {0}, !.opt_number = 1]
    /\ encpc' = "parsing"
    /\ UNCHANGED <<variant, decopts, decpc, encrun, decrun, fs, decmain>>

EncParseBegin ==
    /\ encpc = "start"
    /\ LET m == [encmain EXCEPT !.examined = {0}, !.opt_number = 1]
       IN  /\ encopts' = [encopts EXCEPT
                  !.program_name = At(encmain, 0),
                  !.prog_name_stripped = filename(At(encmain, 0))]
           /\ IF Len(encmain.raw_cmdln) = 1
              THEN /\ encmain' = [m EXCEPT
                          !.parse_results = 1,
                          !.printed = Append(m.printed, OutLine("cout", "usage", 0))]
                   /\ encpc' = "exit0"
              ELSE /\ encmain' = m
                   /\ encpc' = "parsing"
    /\ UNCHANGED <<variant, decopts, decpc, encrun, decrun, fs, decmain>>

\* mutant of EncParseOption: after the exception is reported the run goes on
\* with the options parsed so far
EncParseOption_GoesOn ==
    /\ encpc = "parsing"
    /\ encmain.opt_number < Len(encmain.raw_cmdln)
    /\ LET st == encParseOption(encopts, encmain)
       IN  /\ encopts' = st.o
           /\ IF st.m.thrown # NoThrow
              THEN /\ encmain' = Caught(st.m, st.m.thrown, "cout")
                   /\ encpc' = "parsed"
              ELSE /\ encmain' = st.m
                   /\ encpc' = "parsing"
    /\ UNCHANGED <<variant, decopts, decpc, encrun, decrun, fs, decmain>>

\* mutant of EncParseOption: an iteration that does not throw leaves
\* opt_number where it was
EncParseOption_NoAdvance ==
    /\ encpc = "parsing"
    /\ encmain.opt_number < Len(encmain.raw_cmdln)
    /\ LET st == encParseOption(encopts, encmain)
       IN  /\ encopts' = st.o
           /\ IF st.m.thrown # NoThrow
              THEN /\ encmain' = Caught(st.m, st.m.thrown, "cout")
                   /\ encpc' = "exit1"
              ELSE /\ encmain' = [st.m EXCEPT !.opt_number = encmain.opt_number]
                   /\ encpc' = "parsing"
    /\ UNCHANGED <<variant, decopts, decpc, encrun, decrun, fs, decmain>>

\* one iteration of the loop of parseCommandLine; an exception ends the run
\* in a catch clause of main
EncParseOption ==
    /\ encpc = "parsing"
    /\ encmain.opt_number < Len(encmain.raw_cmdln)
    /\ LET st == encParseOption(encopts, encmain)
       IN  /\ encopts' = st.o
           /\ IF st.m.thrown # NoThrow
              THEN /\ encmain' = Caught(st.m, st.m.thrown, "cout")
                   /\ encpc' = "exit1"
              ELSE /\ encmain' = st.m
                   /\ encpc' = "parsing"
    /\ UNCHANGED <<variant, decopts, decpc, encrun, decrun, fs, decmain>>

\* the loop has ended: parseCommandLine returns parse_results, and main
\* returns 0 when it is 1
\* mutant of EncParseReturn: the code parseCommandLine returns is not looked at
EncParseReturn_IgnoresCode ==
    /\ encpc = "parsing"
    /\ encmain.opt_number >= Len(encmain.raw_cmdln)
    /\ encpc' = "parsed"
    /\ UNCHANGED <<variant, encopts, decopts, decpc, encrun, decrun, fs,
                   encmain, decmain>>

EncParseReturn ==
    /\ encpc = "parsing"
    /\ encmain.opt_number >= Len(encmain.raw_cmdln)
    /\ encpc' = IF encmain.parse_results = 1 THEN "exit0" ELSE "parsed"
    /\ UNCHANGED <<variant, encopts, decopts, decpc, encrun, decrun, fs,
                   encmain, decmain>>

EncGenerateCipherDict ==
    /\ encpc = "parsed"
    /\ encopts' = generateCipherDict_enc(encopts)
    /\ encpc' = "dict"
    /\ UNCHANGED <<variant, decopts, decpc, encrun, decrun, fs, encmain, decmain>>

\* mutant of EncCheckInput: the output stream is constructed before the
\* input file is checked
EncCheckInput_OutputFirst ==
    /\ encpc = "dict"
    /\ fs' = ofstreamOpen(fs, IF encopts.use_default_oname
                              THEN encopts.infilename \o ".ciph"
                              ELSE encopts.outfilename)
    /\ IF ~exists(fs, encopts.infilename)
       THEN /\ encpc' = "exit1"
            /\ encrun' = [encrun EXCEPT !.ifilepath = encopts.infilename]
            /\ encmain' = Caught(encmain, FilesystemError(encopts.infilename), "cout")
       ELSE /\ encpc' = "inopen"
            /\ encrun' = [encrun EXCEPT !.ifilepath = encopts.infilename,
                                        !.ifile_open = TRUE]
            /\ encmain' = encmain
    /\ UNCHANGED <<variant, encopts, decopts, decpc, decrun, decmain>>

\* encipherFileText: the existence check of the input file
EncCheckInput ==
    /\ encpc = "dict"
    /\ IF ~exists(fs, encopts.infilename)
       THEN /\ encpc' = "exit1"
            /\ encrun' = [encrun EXCEPT !.ifilepath = encopts.infilename]
            /\ encmain' = Caught(encmain, FilesystemError(encopts.infilename), "cout")
       ELSE /\ encpc' = "inopen"
            /\ encrun' = [encrun EXCEPT !.ifilepath = encopts.infilename,
                                        !.ifile_open = TRUE]
            /\ encmain' = encmain
    /\ UNCHANGED <<variant, encopts, decopts, decpc, decrun, fs, decmain>>

\* mutant of EncOpenOutput: the output name is stored in the option object
EncOpenOutput_StoresName ==
    /\ encpc = "inopen"
    /\ LET fulloname == IF encopts.use_default_oname
                        THEN encopts.infilename \o ".ciph"
                        ELSE encopts.outfilename
       IN  /\ fs' = ofstreamOpen(fs, fulloname)
           /\ encrun' = [encrun EXCEPT !.ofilepath = fulloname,
                                       !.ofile_open = Writable(fulloname)]
           /\ encopts' = [encopts EXCEPT !.outfilename = fulloname]
    /\ encpc' = "loop"
    /\ UNCHANGED <<variant, decopts, decpc, decrun, encmain, decmain>>

\* encipherFileText: the output name and std::ofstream ofile(ofilepath)
EncOpenOutput ==
    /\ encpc = "inopen"
    /\ LET fulloname == IF encopts.use_default_oname
                        THEN encopts.infilename \o ".ciph"
                        ELSE encopts.outfilename
       IN  /\ fs' = ofstreamOpen(fs, fulloname)
           /\ encrun' = [encrun EXCEPT !.ofilepath = fulloname,
                                       !.ofile_open = Writable(fulloname)]
    /\ encpc' = "loop"
    /\ UNCHANGED <<variant, encopts, decopts, decpc, decrun, encmain, decmain>>

\* encipherFileText: one iteration of the while( std::getline ) loop
EncReadLine ==
    /\ encpc = "loop"
    /\ LET g == getline(contents(fs, encrun.ifilepath), encrun.ipos)
           outstr == transformLine(encopts.cipher_dict, g.origstr, <<>>, 1)
       IN  /\ g.ok
           /\ fs' = ofstreamWriteLine(fs, encrun.ofilepath, encrun.ofile_open, outstr)
           /\ encrun' = [encrun EXCEPT
                           !.ipos = g.pos,
                           !.num_chrs_read = encrun.num_chrs_read + Len(g.origstr)]
           /\ encopts' = [encopts EXCEPT
                           !.cipher_dict = dictAfterLine(encopts.cipher_dict, g.origstr, 1),
                           !.nbytes_file = encopts.nbytes_file + Len(g.origstr)]
    /\ UNCHANGED <<variant, decopts, encpc, decpc, decrun, encmain, decmain>>

\* encipherFileText: getline fails, the streams are closed and the number of
\* characters read is printed, or the log by main; main returns 0
EncFinish ==
    /\ encpc = "loop"
    /\ ~getline(contents(fs, encrun.ifilepath), encrun.ipos).ok
    /\ encrun' = [encrun EXCEPT !.ifile_open = FALSE, !.ofile_open = FALSE]
    /\ encmain' = [encmain EXCEPT !.printed =
           Append(encmain.printed,
                  IF ~encopts.display_log_info
                  THEN OutLine("cout", "Read", encrun.num_chrs_read)
                  ELSE OutLine("cout", "log", encopts.nbytes_file))]
    /\ encpc' = "exit0"
    /\ UNCHANGED <<variant, encopts, decopts, decpc, decrun, fs, decmain>>

(***************************************************************************)
(* The decipher run on the file the encipher run wrote, with the same      *)
(* shift and classes: main of ShiftDecipher.cpp (A: line 218, B: line 1044)*)
(***************************************************************************)
\* the path the encipher run writes
EncOutputName ==
    IF encopts.use_default_oname THEN encopts.infilename \o ".ciph"
    ELSE encopts.outfilename

\* a decipher program is started once the encipher program has exited
DecStart ==
    /\ encpc \in {"exit0", "exit1"}
    /\ decpc = "idle"
    /\ \E v \in {"A", "B"}, o_given \in BOOLEAN :
          /\ variant' = v
          /\ decopts' =
               IF v = "A"
               THEN DecAParsed(EncOutputName, o_given, DecOutPath,
                               encopts.shift_amount, encopts.enc_numbers,
                               encopts.enc_puncts)
               ELSE DecBParsed(EncOutputName, o_given, DecOutPath,
                               encopts.shift_amount, encopts.enc_numbers,
                               encopts.enc_puncts)
    /\ decpc' = "parsed"
    /\ UNCHANGED <<encopts, encpc, encrun, decrun, fs, encmain, decmain>>

\* parseCommandLine of program A up to the loop: the tokens are copied to
\* the deque, the program names are stored and the first token is popped;
\* for a command line of the program name alone CMDLN_USAGE_REQ is returned
\* and main prints the usage and returns 0
decAParseBegin ==
    LET deq == pop_front(decmain.raw_cmdln)
        m == [decmain EXCEPT !.examined = {0}, !.cmdln_deq = deq]
    IN  /\ decopts' = [decopts EXCEPT
               !.program_name = Head(decmain.raw_cmdln),
               !.prog_name_stripped = filename(Head(decmain.raw_cmdln))]
        /\ IF deq = <<>>
           THEN /\ decmain' = [m EXCEPT
                       !.parse_results = "CMDLN_USAGE_REQ",
                       !.printed = Append(m.printed, OutLine("cout", "usage", 0))]
                /\ decpc' = "exit0"
           ELSE /\ decmain' = m
                /\ decpc' = "parsing"

\* parseCommandLine of program B up to the loop
decBParseBegin ==
    LET m == [decmain EXCEPT !.examined = {0}, !.opt_number = 1]
    IN  /\ decopts' = [decopts EXCEPT
               !.program_name = At(decmain, 0),
               !.prog_name_stripped = filename(At(decmain, 0))]
        /\ IF Len(decmain.raw_cmdln) = 1
           THEN /\ decmain' = [m EXCEPT
                       !.parse_results = 1,
                       !.printed = Append(m.printed, OutLine("cout", "usage", 0))]
                /\ decpc' = "exit0"
           ELSE /\ decmain' = m
                /\ decpc' = "parsing"

DecParseBegin ==
    /\ decpc = "start"
    /\ IF variant = "A" THEN decAParseBegin ELSE decBParseBegin
    /\ UNCHANGED <<variant, encopts, encpc, encrun, decrun, fs, encmain>>

\* the loop of parseCommandLine goes on
DecLoopGoesOn ==
    IF variant = "A" THEN decmain.cmdln_deq # <<>>
    ELSE decmain.opt_number < Len(decmain.raw_cmdln)

\* one iteration of the loop of parseCommandLine; an exception ends the run
\* in a catch clause of main.  After -i, -o and -s without a value front()
\* is called on the emptied deque and what it refers to is copied: the copy
\* throws and catch(...) of main prints its line and returns 1, or the copy
\* ends the run with a signal.  When a string was copied, after -i and -o
\* the second pop_front() works on the emptied deque, whose empty() the
\* loop then tests: the run ends in any way or goes on; after -s std::stoi
\* throws on what was copied and main catches it, or finds a number in it
\* and the same pop_front() follows
DecParseOption ==
    /\ decpc = "parsing"
    /\ DecLoopGoesOn
    /\ LET st == IF variant = "A" THEN decAParseOption(decopts, decmain)
                 ELSE decBParseOption(decopts, decmain)
       IN  /\ decopts' = st.o
           /\ CASE variant = "A" /\ st.m.undefined /\ st.m.thrown = NoThrow ->
                     \/ /\ decmain' = st.m
                        /\ decpc' \in UndefinedOutcomes
                     \/ /\ \E type \in CopyThrows :
                              decmain' = Caught(st.m, StdThrow(type), "cerr")
                        /\ decpc' = "exit1"
                [] variant = "A" /\ st.m.undefined /\ st.m.thrown # NoThrow ->
                     \/ /\ decmain' = Caught(st.m, st.m.thrown, "cerr")
                        /\ decpc' = "exit1"
                     \/ /\ \E type \in CopyThrows :
                              decmain' = Caught(st.m, StdThrow(type), "cerr")
                        /\ decpc' = "exit1"
                     \/ /\ decmain' = [st.m EXCEPT !.thrown = NoThrow]
                        /\ decpc' \in {"signal", "undefined"}
                [] st.m.thrown # NoThrow ->
                     /\ decmain' = Caught(st.m, st.m.thrown, "cerr")
                     /\ decpc' = "exit1"
                [] OTHER ->
                     /\ decmain' = st.m
                     /\ decpc' = "parsing"
    /\ UNCHANGED <<variant, encopts, encpc, encrun, decrun, fs, encmain>>

\* the loop has ended: parseCommandLine returns parse_results.  main of
\* program A prints the help for CMDLN_HELP_REQ and returns 0; main of
\* program B returns 0 when parse_results is 1
DecParseReturn ==
    /\ decpc = "parsing"
    /\ ~DecLoopGoesOn
    /\ IF variant = "A"
       THEN CASE decmain.parse_results = "CMDLN_HELP_REQ" ->
                   /\ decmain' = [decmain EXCEPT !.printed =
                          Append(decmain.printed, OutLine("cout", "help", 0))]
                   /\ decpc' = "exit0"
              [] decmain.parse_results = "CMDLN_USAGE_REQ" ->
                   /\ decmain' = [decmain EXCEPT !.printed =
                          Append(decmain.printed, OutLine("cout", "usage", 0))]
                   /\ decpc' = "exit0"
              [] decmain.parse_results = "CMDLN_USER_ERROR" ->
                   /\ decmain' = decmain
                   /\ decpc' = "exit1"
              [] OTHER ->
                   /\ decmain' = decmain
                   /\ decpc' = "parsed"
       ELSE /\ decmain' = decmain
            /\ decpc' = IF decmain.parse_results = 1 THEN "exit0" ELSE "parsed"
    /\ UNCHANGED <<variant, encopts, decopts, encpc, encrun, decrun, fs, encmain>>

DecGenerateCipherDict ==
    /\ decpc = "parsed"
    /\ decopts' = IF variant = "A" THEN generateCipherDict_decA(decopts)
                  ELSE generateCipherDict_decB(decopts)
    /\ decpc' = "dict"
    /\ UNCHANGED <<variant, encopts, encpc, encrun, decrun, fs, encmain, decmain>>

\* decipherFileText: the existence check of the input file
DecCheckInput ==
    /\ decpc = "dict"
    /\ IF ~exists(fs, decopts.infilename)
       THEN /\ decpc' = "exit1"
            /\ decrun' = [decrun EXCEPT !.ifilepath = decopts.infilename]
            /\ decmain' = Caught(decmain, FilesystemError(decopts.infilename), "cerr")
       ELSE /\ decpc' = "inopen"
            /\ decrun' = [decrun EXCEPT !.ifilepath = decopts.infilename,
                                        !.ifile_open = TRUE]
            /\ decmain' = decmain
    /\ UNCHANGED <<variant, encopts, decopts, encpc, encrun, fs, encmain>>

\* decipherFileText of program A: the default name is stored in outfilename
\* when decipher_flags[1] is set; a stream that is not open closes the
\* input and throws
decipherOpenOutputA ==
    LET o == IF decopts.decipher_flags[1] = TRUE
             THEN [decopts EXCEPT !.outfilename = decopts.infilename \o ".dec"]
             ELSE decopts
        ofilepath == o.outfilename
    IN  /\ decopts' = o
        /\ fs' = ofstreamOpen(fs, ofilepath)
        /\ IF ~Writable(ofilepath)
           THEN /\ decrun' = [decrun EXCEPT !.ofilepath = ofilepath,
                                            !.ifile_open = FALSE]
                /\ decmain' = Caught(decmain, FilesystemError(ofilepath), "cerr")
                /\ decpc' = "exit1"
           ELSE /\ decrun' = [decrun EXCEPT !.ofilepath = ofilepath,
                                            !.ofile_open = TRUE]
                /\ decmain' = decmain
                /\ decpc' = "loop"

\* decipherFileText of program B: the default name is stored in outfilename
\* when use_default_oname; the stream is not tested
decipherOpenOutputB ==
    LET o == IF decopts.use_default_oname
             THEN [decopts EXCEPT !.outfilename = decopts.infilename \o ".dec"]
             ELSE decopts
        fulloname == o.outfilename
    IN  /\ decopts' = o
        /\ fs' = ofstreamOpen(fs, fulloname)
        /\ decrun' = [decrun EXCEPT !.ofilepath = fulloname,
                                    !.ofile_open = Writable(fulloname)]
        /\ decmain' = decmain
        /\ decpc' = "loop"

DecOpenOutput ==
    /\ decpc = "inopen"
    /\ IF variant = "A" THEN decipherOpenOutputA ELSE decipherOpenOutputB
    /\ UNCHANGED <<variant, encopts, encpc, encrun, encmain>>

\* decipherFileText: one iteration of the while( std::getline ) loop
DecReadLine ==
    /\ decpc = "loop"
    /\ LET g == getline(contents(fs, decrun.ifilepath), decrun.ipos)
           outstr == transformLine(decopts.cipher_dict, g.origstr, <<>>, 1)
       IN  /\ g.ok
           /\ fs' = ofstreamWriteLine(fs, decrun.ofilepath, decrun.ofile_open, outstr)
           /\ decrun' = [decrun EXCEPT
                           !.ipos = g.pos,
                           !.num_chrs_read = decrun.num_chrs_read + Len(g.origstr)]
           /\ decopts' = [decopts EXCEPT
                           !.cipher_dict = dictAfterLine(decopts.cipher_dict, g.origstr, 1),
                           !.nbytes_file = decopts.nbytes_file + Len(g.origstr)]
    /\ UNCHANGED <<variant, encopts, encpc, decpc, encrun, encmain, decmain>>

\* the log flag of the decipher program
DecLog == IF variant = "A" THEN decopts.decipher_flags[7] ELSE decopts.display_log_info

\* decipherFileText: getline fails, the streams are closed and the number of
\* characters read is printed, or the log by main; main returns 0
DecFinish ==
    /\ decpc = "loop"
    /\ ~getline(contents(fs, decrun.ifilepath), decrun.ipos).ok
    /\ decrun' = [decrun EXCEPT !.ifile_open = FALSE, !.ofile_open = FALSE]
    /\ decmain' = [decmain EXCEPT !.printed =
           Append(decmain.printed,
                  IF ~DecLog
                  THEN OutLine("cout", "Read", decrun.num_chrs_read)
                  ELSE OutLine("cerr", "log", decopts.nbytes_file))]
    /\ decpc' = "exit0"
    /\ UNCHANGED <<variant, encopts, decopts, encpc, encrun, fs, encmain>>

(***************************************************************************)
(* Specifications                                                          *)
(***************************************************************************)
\* the bytes input files are made of: a letter, the last digit, the last
\* punctuation symbol, a space (in no class) and the line terminator
TextBytes == {97, 57, 126, 32, NL}

RECURSIVE SeqsUpTo(_, _)
SeqsUpTo(S, n) ==
    IF n = 0 THEN {<<>>}
    ELSE LET shorter == SeqsUpTo(S, n - 1)
         IN  shorter \cup {Append(s, b) : s \in {t \in shorter : Len(t) = n - 1}, b \in S}

Texts == SeqsUpTo(TextBytes, MaxLen)

\* the shifts of the sessions that transform files: a negative one and one
\* larger than every class size
TransformShifts == {-3, 36}

\* the shifts of the dictionary specification: negative, zero, larger than
\* every class size, and the largest int
BuildShifts == (-MaxShift..MaxShift) \cup {100, INT_MAX}

\* a session: the encipher program has parsed -i in.txt -s shift [-n] [-p]
\* [-o out.enc]; in.txt holds text or does not exist
Init ==
    \E shift \in TransformShifts, nums \in BOOLEAN, puncts \in BOOLEAN,
       o_given \in BOOLEAN, present \in BOOLEAN :
       \E text \in IF present THEN Texts ELSE {<<>>} :
          /\ encopts = EncParsed(InPath, o_given, EncOutPath, shift, nums, puncts)
          /\ fs = IF present THEN [p \in {InPath} |-> text] ELSE NoFiles
          /\ variant = "none"
          /\ decopts = [infilename |-> ""]
          /\ encpc = "parsed"
          /\ decpc = "idle"
          /\ encrun = IdleRun
          /\ decrun = IdleRun
          /\ encmain = MainInit(<<>>)
          /\ decmain = MainInit(<<>>)

Next ==
    \/ EncGenerateCipherDict
    \/ EncCheckInput
    \/ EncOpenOutput
    \/ EncReadLine
    \/ EncFinish
    \/ DecStart
    \/ DecGenerateCipherDict
    \/ DecCheckInput
    \/ DecOpenOutput
    \/ DecReadLine
    \/ DecFinish

Spec == Init /\ [][Next]_vars

(***************************************************************************)
(* Runs from the command line on: one of the three programs is started on  *)
(* a command line; in.txt and out.enc exist, none.txt does not             *)
(***************************************************************************)
\* at most MaxOpts leading options are followed by the token looked at and
\* by one more option
MaxOpts == 2

\* leading options: valid, each one at most once
LeadOptions ==
    { <<"-i", "in.txt">>, <<"--ifile", "none.txt">>, <<"-o", "out.enc">>,
      <<"-s", "-3">>, <<"-n">>, <<"--show-log">> }

\* the tokens looked at, with their values; <<>> for none
MidOptions ==
    { <<>>, <<"-h">>, <<"--help">>, <<"-ah">>, <<"-ha">>, <<"-xh">>, <<"-hx">>,
      <<"-nx">>, <<"-">>, <<"">>, <<"--bogus">>, <<"a-b">>, <<"in.txt">>,
      <<"-s", "abc">>, <<"-s", "99999999999">>, <<"-s", "7x">>, <<"-s", "\t7">>, <<"-s", "36">>,
      <<"--ofile", "">>, <<"--ofile", ".">>, <<"-o", "nodir/x">>,
      <<"--ifile", "./in.txt">>, <<"-o", "./out.enc">>,
      <<"--ifile", "/a/b/cwd/in.txt">>, <<"-o", "./../x">>,
      <<"-l">>, <<"-a">>, <<"-p">>, <<"-np">>,
      <<"--shift-nums">>, <<"--shift-numbers">>, <<"--shift-puncts">>,
      <<"--shift-all">> }

\* the last option: none, an option without its value, an invalid token, a
\* flag, a second output file
LastOptions ==
    { <<>>, <<"-i">>, <<"-o">>, <<"-s">>, <<"--bogus">>, <<"-p">>,
      <<"-o", "out.dec">> }

RECURSIVE LeadsUpTo(_)
\* the sequences of at most n different leading options
LeadsUpTo(n) ==
    IF n = 0 THEN {<<>>}
    ELSE LET shorter == LeadsUpTo(n - 1)
             longest == {l \in shorter : Len(l) = n - 1}
         IN  shorter \cup
             { Append(p[1], p[2]) :
                 p \in {q \in longest \X LeadOptions : q[2] \notin Range(q[1])} }

RECURSIVE Flatten(_)
\* the tokens of a sequence of options
Flatten(options) ==
    IF options = <<>> THEN <<>> ELSE Head(options) \o Flatten(Tail(options))

\* the command lines of a program
CmdLines(program) ==
    { <<program>> \o Flatten(lead) \o mid \o last :
        lead \in LeadsUpTo(MaxOpts), mid \in MidOptions, last \in LastOptions }

\* the files that exist when the program is started
CmdLineFile == <<97, NL, 57>>
OldOutput == <<120, NL>>
CmdLineFiles == (InPath :> CmdLineFile) @@ (EncOutPath :> OldOutput)

InitCmd ==
    \E program \in {"enc", "A", "B"} :
       \E raw_cmdln \in CmdLines(IF program = "enc" THEN EncProgram ELSE DecProgram) :
          /\ variant = IF program = "enc" THEN "none" ELSE program
          /\ encopts = CipherOptions
          /\ decopts = CASE program = "A" -> DecipherCtrlOptsA
                         [] program = "B" -> DecipherCtrlOptsB
                         [] OTHER -> [infilename |-> ""]
          /\ encmain = IF program = "enc" THEN MainInit(raw_cmdln) ELSE MainInit(<<>>)
          /\ decmain = CASE program = "A" -> MainInitA(raw_cmdln)
                         [] program = "B" -> MainInit(raw_cmdln)
                         [] OTHER -> MainInit(<<>>)
          /\ encpc = IF program = "enc" THEN "start" ELSE "off"
          /\ decpc = IF program = "enc" THEN "off" ELSE "start"
          /\ encrun = IdleRun
          /\ decrun = IdleRun
          /\ fs = CmdLineFiles

NextCmd ==
    \/ EncParseBegin
    \/ EncParseOption
    \/ EncParseReturn
    \/ EncGenerateCipherDict
    \/ EncCheckInput
    \/ EncOpenOutput
    \/ EncReadLine
    \/ EncFinish
    \/ DecParseBegin
    \/ DecParseOption
    \/ DecParseReturn
    \/ DecGenerateCipherDict
    \/ DecCheckInput
    \/ DecOpenOutput
    \/ DecReadLine
    \/ DecFinish

SpecCmd == InitCmd /\ [][NextCmd]_vars

\* the dictionaries alone: the encipher program and a decipher program have
\* parsed the same shift and classes
InitBuild ==
    \E shift \in BuildShifts, nums \in BOOLEAN, puncts \in BOOLEAN,
       v \in {"A", "B"} :
          /\ encopts = EncParsed(InPath, FALSE, EncOutPath, shift, nums, puncts)
          /\ variant = v
          /\ decopts = IF v = "A"
                       THEN DecAParsed(InPath \o ".ciph", TRUE, DecOutPath,
                                       shift, nums, puncts)
                       ELSE DecBParsed(InPath \o ".ciph", TRUE, DecOutPath,
                                       shift, nums, puncts)
          /\ fs = NoFiles
          /\ encpc = "parsed"
          /\ decpc = "parsed"
          /\ encrun = IdleRun
          /\ decrun = IdleRun
          /\ encmain = MainInit(<<>>)
          /\ decmain = MainInit(<<>>)

NextBuild ==
    \/ EncGenerateCipherDict
    \/ DecGenerateCipherDict

SpecBuild == InitBuild /\ [][NextBuild]_vars

(***************************************************************************)
(* Vocabulary of the properties                                            *)
(***************************************************************************)
\* the four classes, in the order upper, lower, digits, punctuation
Classes == <<ORIG_UPPER, ORIG_LOWER, ORIG_NUMBERS, ORIG_PUNCTS>>

EncBuilt == encpc # "parsed"
DecBuilt == decpc \notin {"idle", "parsed"}

\* the classes the command line of the encipher / decipher program enabled
EncEnabled(c) ==
    \/ c \in {1, 2}
    \/ c = 3 /\ encopts.enc_numbers
    \/ c = 4 /\ encopts.enc_puncts

DecNumbers == IF variant = "A" THEN decopts.decipher_flags[2] ELSE decopts.dec_numbers
DecPuncts == IF variant = "A" THEN decopts.decipher_flags[3] ELSE decopts.dec_puncts

DecEnabled(c) ==
    \/ c \in {1, 2}
    \/ c = 3 /\ DecNumbers
    \/ c = 4 /\ DecPuncts

EncEnabledSymbols == UNION {Range(Classes[c]) : c \in {c \in 1..4 : EncEnabled(c)}}
DecEnabledSymbols == UNION {Range(Classes[c]) : c \in {c \in 1..4 : DecEnabled(c)}}
AllSymbols == UNION {Range(Classes[c]) : c \in 1..4}

\* the floor modulo of the specification: the r in 0..m-1 with k - r a
\* multiple of m
FloorMod(k, m) == CHOOSE r \in 0..(m - 1) : (k - r) % m = 0

\* k + d is an int
Representable(k, d) ==
    /\ d > 0 => k <= INT_MAX - d
    /\ d < 0 => k >= INT_MIN - d

(***************************************************************************)
(* C1  For the same shift and flags, the decipher table undoes the         *)
(* encipher table on every symbol of every enabled class: D[E[x]] = x.     *)
(***************************************************************************)
C1_TableRoundTrip ==
    (EncBuilt /\ DecBuilt) =>
        \A x \in EncEnabledSymbols :
            /\ x \in DOMAIN encopts.cipher_dict
            /\ encopts.cipher_dict[x] \in DOMAIN decopts.cipher_dict
            /\ decopts.cipher_dict[encopts.cipher_dict[x]] = x

C1_Witness ==
    /\ EncBuilt /\ DecBuilt
    /\ variant = "A"
    /\ encopts.shift_amount = -45
    /\ encopts.enc_numbers /\ encopts.enc_puncts
    /\ encopts.cipher_dict[48] = 53
    /\ decopts.cipher_dict[53] = 48

(***************************************************************************)
(* C3  The encipher table maps the symbol at index i of an enabled class   *)
(* of size m to the symbol at index (i + reduced) mod m, reduced being the *)
(* floor modulo of the raw shift by m: shift 5 maps 'H' to 'M' and 'e' to  *)
(* 'j', shift -3 maps "abc" to "xyz", shift 0 is the identity.             *)
(***************************************************************************)
C3_EncipherRotation ==
    EncBuilt =>
        /\ \A c \in 1..4 :
              EncEnabled(c) =>
                 LET m == Len(Classes[c])
                     reduced == FloorMod(encopts.shift_amount, m)
                 IN  \A i \in 0..(m - 1) :
                        encopts.cipher_dict[Classes[c][i + 1]]
                            = Classes[c][((i + reduced) % m) + 1]
        /\ encopts.shift_amount = 5 =>
              /\ encopts.cipher_dict[72] = 77
              /\ encopts.cipher_dict[101] = 106
        /\ encopts.shift_amount = -3 =>
              /\ encopts.cipher_dict[97] = 120
              /\ encopts.cipher_dict[98] = 121
              /\ encopts.cipher_dict[99] = 122
        /\ encopts.shift_amount = 0 =>
              \A x \in EncEnabledSymbols : encopts.cipher_dict[x] = x

C3_Witness ==
    /\ EncBuilt
    /\ encopts.shift_amount = -3
    /\ encopts.enc_numbers /\ ~encopts.enc_puncts
    /\ encopts.cipher_dict[97] = 120
    /\ encopts.cipher_dict[48] = 55

(***************************************************************************)
(* C4  calculateEffectiveShift / calcReducedShift return, for class sizes  *)
(* 26, 10 and 32, the r with 0 <= r < m and r = ((k % m) + m) % m (% of    *)
(* C++), for negative and non-negative k, and no addition of the loop      *)
(* leaves the range of int.                                                *)
(***************************************************************************)
C4_ReducedShift ==
    /\ \A m \in {26, 10, 32} :
          LET k  == encopts.shift_amount
              r  == calculateEffectiveShift(k, m)
              rd == calcReducedShift(k, m)
          IN  /\ 0 <= r /\ r < m
              /\ r = IntRem(IntRem(k, m) + m, m)
              /\ r = FloorMod(k, m)
              /\ rd = r
    /\ EncBuilt =>
          /\ encopts.effective_shift = FloorMod(encopts.shift_amount, 26)
          /\ encopts.enc_numbers =>
                encopts.numbers_shift = FloorMod(encopts.shift_amount, 10)
          /\ encopts.enc_puncts =>
                encopts.puncts_shift = FloorMod(encopts.shift_amount, 32)
    /\ DecBuilt =>
          decopts.reduced_shift_len = FloorMod(decopts.orig_shift_len, 26)

C4_Witness ==
    /\ EncBuilt /\ DecBuilt
    /\ encopts.shift_amount = -67
    /\ encopts.enc_numbers /\ encopts.enc_puncts
    /\ encopts.effective_shift = 11
    /\ encopts.numbers_shift = 3
    /\ encopts.puncts_shift = 29
    /\ decopts.reduced_shift_len = 11

(***************************************************************************)
(* C5  Periodicity: for every class C of size m and every n with k + n*m   *)
(* an int, the entries of the symbols of C in the table built from k are   *)
(* those of the table built from k + n*m, in both directions; shift 100    *)
(* and shift 22 give the same uppercase mapping.                           *)
(***************************************************************************)
\* the tables the programs build from another shift, same flags
EncDictOf(shift) ==
    generateCipherDict_enc(
        EncParsed(InPath, FALSE, EncOutPath, shift,
                  encopts.enc_numbers, encopts.enc_puncts)).cipher_dict

DecDictOf(shift) ==
    IF variant = "A"
    THEN generateCipherDict_decA(
             DecAParsed(InPath, TRUE, DecOutPath, shift, DecNumbers, DecPuncts)).cipher_dict
    ELSE generateCipherDict_decB(
             DecBParsed(InPath, TRUE, DecOutPath, shift, DecNumbers, DecPuncts)).cipher_dict

C5_Periodicity ==
    (EncBuilt /\ DecBuilt) =>
        /\ \A c \in 1..4, n \in (-MaxPeriods)..MaxPeriods :
              LET m == Len(Classes[c])
                  k == encopts.shift_amount
              IN  (n # 0 /\ Representable(k, n * m)) =>
                     LET e2 == EncDictOf(k + n * m)
                         d2 == DecDictOf(k + n * m)
                     IN  \A x \in Range(Classes[c]) :
                            /\ e2[x] = encopts.cipher_dict[x]
                            /\ d2[x] = decopts.cipher_dict[x]
        /\ encopts.shift_amount = 100 =>
              LET e22 == EncDictOf(22)
                  d22 == DecDictOf(22)
              IN  \A x \in Range(ORIG_UPPER) :
                     /\ e22[x] = encopts.cipher_dict[x]
                     /\ d22[x] = decopts.cipher_dict[x]

C5_Witness ==
    /\ EncBuilt /\ DecBuilt
    /\ encopts.shift_amount = 100
    /\ encopts.enc_numbers /\ encopts.enc_puncts
    /\ encopts.cipher_dict[65] = 87
    /\ EncDictOf(22)[65] = 87
    /\ EncDictOf(100 - 32)[33] = encopts.cipher_dict[33]

(***************************************************************************)
(* C6  An enabled digit class rotates by the raw shift floor-mod 10 and an *)
(* enabled punctuation class by the raw shift floor-mod 32, never by a     *)
(* reduction of the alphabet shift: shift 36 rotates letters by 10, digits *)
(* by 6 and punctuation by 4.                                              *)
(***************************************************************************)
C6_OwnModulus ==
    /\ EncBuilt =>
          /\ encopts.enc_numbers =>
                /\ encopts.numbers_shift = FloorMod(encopts.shift_amount, 10)
                /\ \A i \in 0..9 :
                      encopts.cipher_dict[ORIG_NUMBERS[i + 1]]
                          = ORIG_NUMBERS[((i + FloorMod(encopts.shift_amount, 10)) % 10) + 1]
          /\ encopts.enc_puncts =>
                /\ encopts.puncts_shift = FloorMod(encopts.shift_amount, 32)
                /\ \A i \in 0..31 :
                      encopts.cipher_dict[ORIG_PUNCTS[i + 1]]
                          = ORIG_PUNCTS[((i + FloorMod(encopts.shift_amount, 32)) % 32) + 1]
          /\ encopts.shift_amount = 36 =>
                /\ encopts.effective_shift = 10
                /\ encopts.enc_numbers => encopts.numbers_shift = 6
                /\ encopts.enc_puncts => encopts.puncts_shift = 4
    /\ DecBuilt =>
          /\ DecNumbers =>
                /\ decopts.digits_shift_len = FloorMod(decopts.orig_shift_len, 10)
                /\ \A i \in 0..9 :
                      decopts.cipher_dict[
                          ORIG_DIGITS[((i + FloorMod(decopts.orig_shift_len, 10)) % 10) + 1]]
                          = ORIG_DIGITS[i + 1]
          /\ DecPuncts =>
                /\ decopts.puncts_shift_len = FloorMod(decopts.orig_shift_len, 32)
                /\ \A i \in 0..31 :
                      decopts.cipher_dict[
                          ORIG_PUNCTUATION_SYMBOLS[
                              ((i + FloorMod(decopts.orig_shift_len, 32)) % 32) + 1]]
                          = ORIG_PUNCTUATION_SYMBOLS[i + 1]
          /\ decopts.orig_shift_len = 36 =>
                /\ decopts.reduced_shift_len = 10
                /\ DecNumbers => decopts.digits_shift_len = 6
                /\ DecPuncts => decopts.puncts_shift_len = 4

C6_Witness ==
    /\ EncBuilt /\ DecBuilt
    /\ encopts.shift_amount = 36
    /\ encopts.enc_numbers /\ encopts.enc_puncts
    /\ encopts.effective_shift = 10
    /\ encopts.numbers_shift = 6
    /\ encopts.puncts_shift = 4
    /\ decopts.digits_shift_len = 6
    /\ decopts.puncts_shift_len = 4

(***************************************************************************)
(* C8  As claimed: after generateCipherDict the key set of the table is    *)
(* exactly the union of the alphabets of the enabled classes, a class that *)
(* is not enabled having no entry, not even an identity entry.             *)
(***************************************************************************)
C8_Original ==
    /\ EncBuilt => DOMAIN encopts.cipher_dict = EncEnabledSymbols
    /\ DecBuilt => DOMAIN decopts.cipher_dict = DecEnabledSymbols

(***************************************************************************)
(* C8  As amended: after generateCipherDict the key set of the table is    *)
(* the union of the alphabets of all four classes (94 symbols) whatever    *)
(* the flags are; the symbols of a class that is not enabled have identity *)
(* entries.                                                                *)
(***************************************************************************)
C8_KeySet ==
    /\ EncBuilt =>
          /\ DOMAIN encopts.cipher_dict = AllSymbols
          /\ Cardinality(DOMAIN encopts.cipher_dict) = 52 + 10 + 32
          /\ \A c \in 1..4 :
                ~EncEnabled(c) =>
                    \A x \in Range(Classes[c]) : encopts.cipher_dict[x] = x
    /\ DecBuilt =>
          /\ DOMAIN decopts.cipher_dict = AllSymbols
          /\ Cardinality(DOMAIN decopts.cipher_dict) = 52 + 10 + 32
          /\ \A c \in 1..4 :
                ~DecEnabled(c) =>
                    \A x \in Range(Classes[c]) : decopts.cipher_dict[x] = x

C8_Witness ==
    /\ EncBuilt /\ DecBuilt
    /\ encopts.shift_amount = 7
    /\ ~encopts.enc_numbers /\ ~encopts.enc_puncts
    /\ 48 \in DOMAIN encopts.cipher_dict /\ encopts.cipher_dict[48] = 48
    /\ 33 \in DOMAIN decopts.cipher_dict /\ decopts.cipher_dict[33] = 33
    /\ encopts.cipher_dict[65] = 72

(***************************************************************************)
(* C9  In both directions the table restricted to an enabled class is a    *)
(* bijection of the alphabet of the class onto itself, and the table is    *)
(* injective on the union of the enabled classes.                          *)
(***************************************************************************)
BijectionOnEnabled(dict, enabled) ==
    /\ \A c \in enabled :
          /\ Range(Classes[c]) \subseteq DOMAIN dict
          /\ {dict[x] : x \in Range(Classes[c])} = Range(Classes[c])
    /\ LET syms == UNION {Range(Classes[c]) : c \in enabled}
       IN  \A x \in syms, y \in syms : dict[x] = dict[y] => x = y

C9_ClassBijection ==
    /\ EncBuilt =>
          BijectionOnEnabled(encopts.cipher_dict, {c \in 1..4 : EncEnabled(c)})
    /\ DecBuilt =>
          BijectionOnEnabled(decopts.cipher_dict, {c \in 1..4 : DecEnabled(c)})

C9_Witness ==
    /\ EncBuilt /\ DecBuilt
    /\ variant = "B"
    /\ encopts.shift_amount = -33
    /\ encopts.enc_numbers /\ encopts.enc_puncts
    /\ encopts.cipher_dict[126] = 125
    /\ decopts.cipher_dict[125] = 126

(***************************************************************************)
(* Lines of a byte sequence, as the specification counts them: the pieces  *)
(* between line terminators, a last piece without terminator included when *)
(* it is not empty.                                                        *)
(***************************************************************************)
NLPositions(s) == {j \in 1..Len(s) : s[j] = NL}

LineCount(s) ==
    Cardinality(NLPositions(s)) + (IF Len(s) > 0 /\ s[Len(s)] # NL THEN 1 ELSE 0)

\* the position of the i-th terminator of s, 0 for i = 0
NthNL(s, i) ==
    IF i = 0 THEN 0
    ELSE CHOOSE j \in NLPositions(s) :
            Cardinality({k \in NLPositions(s) : k <= j}) = i

\* the i-th line of s, its terminator excluded
Line(s, i) ==
    SubSeq(s, NthNL(s, i - 1) + 1,
           IF i <= Cardinality(NLPositions(s)) THEN NthNL(s, i) - 1 ELSE Len(s))

EncTransforming == encpc \in {"loop", "exit0"} /\ Writable(encrun.ofilepath)
DecTransforming == decpc \in {"loop", "exit0"} /\ Writable(decrun.ofilepath)

(***************************************************************************)
(* C2  As claimed: enciphering any text and deciphering the output with    *)
(* the same shift and flags gives back the byte sequence of the text, line *)
(* terminators included, also when the last line has no terminator.        *)
(***************************************************************************)
C2_Original ==
    (encpc = "exit0" /\ decpc = "exit0") =>
        fs[decrun.ofilepath] = fs[InPath]

(***************************************************************************)
(* C2  As amended: when the encipher run and the decipher run on its       *)
(* output, with the same shift and flags, both end with exit code 0, the   *)
(* output of the decipher run is the byte sequence of the text when the    *)
(* text is empty or ends with a line terminator, and the text followed by  *)
(* one terminator when the last line of the text has no terminator.  The   *)
(* deque/bitset decipher program ends with exit code 0 only when its       *)
(* output path was given with -o: without -o it opens the empty path and   *)
(* throws (C12), and no output is there to compare.                        *)
(***************************************************************************)
C2_FileRoundTrip ==
    (encpc = "exit0" /\ decpc = "exit0") =>
        LET text == fs[InPath]
            out  == fs[decrun.ofilepath]
        IN  /\ IF Len(text) = 0 \/ text[Len(text)] = NL
               THEN out = text
               ELSE out = text \o <<NL>>
            /\ variant = "A" => decopts.outfilename = DecOutPath

C2_Witness ==
    /\ encpc = "exit0" /\ decpc = "exit0"
    /\ variant = "A"
    /\ encopts.shift_amount = -3
    /\ encopts.enc_numbers /\ ~encopts.enc_puncts
    /\ fs[InPath] = <<97, 57, NL>>
    /\ fs[encrun.ofilepath] = <<120, 54, NL>>
    /\ fs[decrun.ofilepath] = <<97, 57, NL>>

(***************************************************************************)
(* C7  Pass-through: in the encipher and in the decipher transform every   *)
(* input byte that belongs to no enabled class is written unchanged: bytes *)
(* of no class always, digits while the digit flag is off, punctuation     *)
(* while the punctuation flag is off.                                      *)
(***************************************************************************)
PassThrough(run, enabledSymbols) ==
    LET in  == fs[run.ifilepath]
        out == fs[run.ofilepath]
    IN  \A j \in 1..run.ipos :
           (in[j] # NL /\ in[j] \notin enabledSymbols) =>
               (j <= Len(out) /\ out[j] = in[j])

C7_PassThrough ==
    /\ EncTransforming => PassThrough(encrun, EncEnabledSymbols)
    /\ DecTransforming => PassThrough(decrun, DecEnabledSymbols)

C7_Witness ==
    /\ encpc = "exit0" /\ decpc = "exit0"
    /\ encopts.shift_amount = 36
    /\ ~encopts.enc_numbers /\ encopts.enc_puncts
    /\ fs[InPath] = <<57, 32, 126>>
    /\ fs[encrun.ofilepath] = <<57, 32, 36, NL>>
    /\ fs[decrun.ofilepath] = <<57, 32, 126, NL>>

(***************************************************************************)
(* C10  The transform writes one output line per input line read, in the   *)
(* same order; output line i is as long as input line i and its j-th byte  *)
(* is table[b] when the j-th input byte b is a key of the table and b      *)
(* otherwise; every output line, the last included, ends with a line       *)
(* terminator.                                                             *)
(***************************************************************************)
LineByLine(pc, run, dict) ==
    LET in  == SubSeq(fs[run.ifilepath], 1, run.ipos)
        out == fs[run.ofilepath]
    IN  /\ pc = "exit0" => run.ipos = Len(fs[run.ifilepath])
        /\ Len(out) = 0 \/ out[Len(out)] = NL
        /\ Cardinality(NLPositions(out)) = LineCount(in)
        /\ \A i \in 1..LineCount(in) :
              /\ Len(Line(out, i)) = Len(Line(in, i))
              /\ \A j \in 1..Len(Line(in, i)) :
                    LET b == Line(in, i)[j]
                    IN  Line(out, i)[j] = IF b \in DOMAIN dict THEN dict[b] ELSE b

C10_LineByLine ==
    /\ EncTransforming => LineByLine(encpc, encrun, encopts.cipher_dict)
    /\ DecTransforming => LineByLine(decpc, decrun, decopts.cipher_dict)

C10_Witness ==
    /\ encpc = "exit0" /\ decpc = "loop"
    /\ variant = "B"
    /\ encopts.shift_amount = 36
    /\ encopts.enc_numbers /\ encopts.enc_puncts
    /\ fs[InPath] = <<97, NL, 126>>
    /\ fs[encrun.ofilepath] = <<107, NL, 36, NL>>
    /\ decrun.ipos = 2
    /\ fs[decrun.ofilepath] = <<97, NL>>

(***************************************************************************)
(* C11  When the transform completes, the number it reports                *)
(* (num_chrs_read) and the stored nbytes_file are equal, and equal the sum *)
(* of the lengths of the input lines, terminators excluded; the number is  *)
(* 0 for an empty input and depends on the input alone, whatever the shift *)
(* and the flags are.                                                      *)
(***************************************************************************)
RECURSIVE SumOfLineLengths(_, _)
\* the lengths of the lines 1..n of s, added up
SumOfLineLengths(s, n) ==
    IF n = 0 THEN 0 ELSE SumOfLineLengths(s, n - 1) + Len(Line(s, n))

ByteCount(pc, run, o, m) ==
    pc = "exit0" =>
        LET in == fs[run.ifilepath]
            count == SumOfLineLengths(in, LineCount(in))
        IN  /\ run.num_chrs_read = count
            /\ o.nbytes_file = count
            /\ count = Cardinality({j \in 1..Len(in) : in[j] # NL})
            /\ in = <<>> => count = 0
            /\ m.printed # <<>>
            /\ m.printed[Len(m.printed)].text \in {"Read", "log"}
            /\ m.printed[Len(m.printed)].n = count

C11_ByteCount ==
    /\ ByteCount(encpc, encrun, encopts, encmain)
    /\ ByteCount(decpc, decrun, decopts, decmain)

C11_Witness ==
    /\ encpc = "exit0" /\ decpc = "exit0"
    /\ fs[InPath] = <<97, NL, 57>>
    /\ encrun.num_chrs_read = 2 /\ encopts.nbytes_file = 2
    /\ encmain.printed = <<OutLine("cout", "Read", 2)>>
    /\ decrun.num_chrs_read = 2 /\ decopts.nbytes_file = 2

(***************************************************************************)
(* The command line as the specification reads it: token 0 is the program  *)
(* name, an option that takes a value is followed by its value, and the    *)
(* token after an option and its value is in option position again.        *)
(***************************************************************************)
ValueOptions == {"-i", "--ifile", "-o", "--ofile", "-s", "--shift-amount"}

RECURSIVE OptionPositionsFrom(_, _)
\* the option positions of cmd from position k on (positions count from 1)
OptionPositionsFrom(cmd, k) ==
    IF k > Len(cmd) THEN {}
    ELSE {k} \cup OptionPositionsFrom(cmd, IF cmd[k] \in ValueOptions THEN k + 2 ELSE k + 1)

OptionPositions(cmd) == OptionPositionsFrom(cmd, 2)

\* the positions of the -o/--ofile options that have a value
OutputOptions(cmd) ==
    {k \in OptionPositions(cmd) : cmd[k] \in {"-o", "--ofile"} /\ k < Len(cmd)}

\* the output path the specification gives a command line: the value of the
\* last -o/--ofile, the input path with the suffix when there is none
SpecifiedOutput(cmd, infilename, suffix) ==
    IF OutputOptions(cmd) = {} THEN infilename \o suffix
    ELSE cmd[(CHOOSE k \in OutputOptions(cmd) :
                 \A j \in OutputOptions(cmd) : j <= k) + 1]

\* the transform has passed the check of the input file and has constructed
\* the output stream
EncOutputOpened ==
    /\ encpc \in {"loop", "exit0"}
    /\ exists(fs, encrun.ifilepath)
DecOutputOpened ==
    /\ decpc \in {"loop", "exit0", "exit1"}
    /\ exists(fs, decrun.ifilepath)

(***************************************************************************)
(* C12  As claimed: the path the transform opens for writing is the value  *)
(* of the last -o/--ofile of the command line when there is one, and the   *)
(* input path with the suffix appended otherwise (".ciph" for the encipher *)
(* program, ".dec" for the decipher programs); no token after an -o        *)
(* restores the default name.                                              *)
(***************************************************************************)
C12_Original ==
    /\ EncOutputOpened =>
          encrun.ofilepath =
              SpecifiedOutput(encmain.raw_cmdln, encopts.infilename, ".ciph")
    /\ DecOutputOpened =>
          decrun.ofilepath =
              SpecifiedOutput(decmain.raw_cmdln, decopts.infilename, ".dec")

(***************************************************************************)
(* How a run has ended                                                     *)
(***************************************************************************)
Ended(pc) == pc \in {"exit0", "exit1", "signal"}

\* the texts of the lines the run has printed
PrintedTexts(m) == {m.printed[n].text : n \in 1..Len(m.printed)}

\* parseCommandLine has returned the help or usage code
HelpOrUsage(m) ==
    /\ m.thrown = NoThrow
    /\ IF "cmdln_deq" \in DOMAIN m
       THEN m.parse_results \in {"CMDLN_HELP_REQ", "CMDLN_USAGE_REQ"}
       ELSE m.parse_results = 1

\* the transform has run to its end
Processed(m) == PrintedTexts(m) \cap {"Read", "log"} # {}

(***************************************************************************)
(* C13  As claimed: every run ends with exit code 0 or 1; the code is 0    *)
(* when the file was processed, when help was requested and when the usage *)
(* was shown for a command line without arguments; it is 1 when option     *)
(* parsing fails, when the shift value fails to parse and when the input   *)
(* file does not exist.                                                    *)
(***************************************************************************)
ExitCodes(pc, m, run) ==
    Ended(pc) =>
        /\ pc \in {"exit0", "exit1"}
        /\ Processed(m) => pc = "exit0"
        /\ HelpOrUsage(m) => pc = "exit0"
        /\ Len(m.raw_cmdln) = 1 => pc = "exit0" /\ "usage" \in PrintedTexts(m)
        /\ m.thrown.type \in {"invalid_argument", "out_of_range"} => pc = "exit1"
        /\ (run.ifilepath = "none.txt" /\ ~exists(fs, run.ifilepath)) => pc = "exit1"

C13_Original ==
    /\ ExitCodes(encpc, encmain, encrun)
    /\ ExitCodes(decpc, decmain, decrun)

(***************************************************************************)
(* C14  When the input path does not exist, also when it is empty because  *)
(* no -i/--ifile was given, the transform throws a filesystem error that   *)
(* carries the path and the run exits with 1, and no output file has been  *)
(* opened, created or truncated, whether the output name is the default    *)
(* one or was given with -o.                                               *)
(***************************************************************************)
\* encipherFileText / decipherFileText has been called: the table is built
\* and the run is past the check of the input file
TransformCalled(pc, o) ==
    /\ pc \in {"inopen", "loop", "exit0", "exit1"}
    /\ o.cipher_dict # EmptyDict

InputNotFound(pc, o, m, run) ==
    (TransformCalled(pc, o) /\ ~exists(CmdLineFiles, o.infilename)) =>
        /\ pc = "exit1"
        /\ m.thrown = FilesystemError(o.infilename)
        /\ m.printed[Len(m.printed)].text = "what"
        /\ run.ofilepath = "" /\ ~run.ofile_open
        /\ fs = CmdLineFiles

C14_InputNotFound ==
    /\ InputNotFound(encpc, encopts, encmain, encrun)
    /\ InputNotFound(decpc, decopts, decmain, decrun)

C14_Witness ==
    /\ encmain.raw_cmdln = <<EncProgram, "--ifile", "none.txt", "-o", "out.enc">>
    /\ encpc = "exit1"
    /\ encmain.thrown = FilesystemError("none.txt")
    /\ fs[EncOutPath] = OldOutput

(***************************************************************************)
(* C15  As claimed: when the output destination cannot be opened for       *)
(* writing, the run fails with an error that carries the output path and   *)
(* exits with 1; no input line has been read and no byte written, and no   *)
(* number of characters is reported; for the encipher program and for both *)
(* decipher programs.                                                      *)
(***************************************************************************)
OutputUnavailable(opened, pc, m, run) ==
    (opened /\ ~Writable(run.ofilepath)) =>
        /\ pc = "exit1"
        /\ m.thrown = FilesystemError(run.ofilepath)
        /\ run.ipos = 0
        /\ run.num_chrs_read = 0
        /\ ~Processed(m)
        /\ fs = CmdLineFiles

C15_Original ==
    /\ OutputUnavailable(EncOutputOpened, encpc, encmain, encrun)
    /\ OutputUnavailable(DecOutputOpened, decpc, decmain, decrun)

(***************************************************************************)
(* C16  In a run whose command line makes the parser throw (an invalid     *)
(* token, a shift value that is no int), at whatever token position, also  *)
(* after valid -i and -o options, the table is never built and no file is  *)
(* opened, created, truncated, read or written before the run exits.       *)
(***************************************************************************)
ParseErrorTouchesNothing(pc, o, m, run) ==
    m.thrown.type \in {"invalid_argument", "out_of_range"} =>
        /\ pc = "exit1"
        /\ o.cipher_dict = EmptyDict
        /\ run = IdleRun
        /\ fs = CmdLineFiles

C16_ParseErrorTouchesNothing ==
    /\ ParseErrorTouchesNothing(encpc, encopts, encmain, encrun)
    /\ ParseErrorTouchesNothing(decpc, decopts, decmain, decrun)

C16_Witness ==
    /\ encmain.raw_cmdln =
           <<EncProgram, "-i", "in.txt", "-o", "out.enc", "-s", "abc">>
    /\ encpc = "exit1"
    /\ encmain.thrown = StdThrow("invalid_argument")
    /\ encopts.infilename = "in.txt" /\ encopts.outfilename = "out.enc"
    /\ encopts.cipher_dict = EmptyDict
    /\ fs[EncOutPath] = OldOutput

(***************************************************************************)
(* The option grammar of the specification                                 *)
(***************************************************************************)
\* the characters of a combined single-character token
SingleFlags == {"a", "n", "p", "l", "h"}

\* the characters of tok after its first one
Singles(tok) == {Chars(tok)[n] : n \in 2..Len(Chars(tok))}

\* a single '-' followed by at least one character
SingleDash(tok) ==
    /\ Len(Chars(tok)) >= 2
    /\ Chars(tok)[1] = "-"
    /\ Chars(tok)[2] # "-"

\* a single '-' followed by characters of SingleFlags only
IsCombined(tok) == SingleDash(tok) /\ Singles(tok) \subseteq SingleFlags

\* a token that asks for help
IsHelp(tok) == tok = "--help" \/ (IsCombined(tok) /\ "h" \in Singles(tok))

\* the parser has examined position k of the command line (positions count
\* from 1, the indices of examined from 0) as an option
ReachedAsOption(m, k) ==
    /\ k \in OptionPositions(m.raw_cmdln)
    /\ k - 1 \in m.examined

\* the flags of the option object, whatever the program
NumbersFlag(o) ==
    IF "enc_numbers" \in DOMAIN o THEN o.enc_numbers
    ELSE IF "dec_numbers" \in DOMAIN o THEN o.dec_numbers
    ELSE o.decipher_flags[2]

PunctsFlag(o) ==
    IF "enc_puncts" \in DOMAIN o THEN o.enc_puncts
    ELSE IF "dec_puncts" \in DOMAIN o THEN o.dec_puncts
    ELSE o.decipher_flags[3]

LogFlag(o) ==
    IF "display_log_info" \in DOMAIN o THEN o.display_log_info
    ELSE o.decipher_flags[7]

\* parseCommandLine has the help code
HelpRequested(m) ==
    /\ m.thrown = NoThrow
    /\ IF "cmdln_deq" \in DOMAIN m
       THEN m.parse_results = "CMDLN_HELP_REQ"
       ELSE m.parse_results = 1

(***************************************************************************)
(* C17  When --help, -h or a combined token of recognized flags with an h  *)
(* in it is reached in option position, the outcome is a help request: the *)
(* flags of the other characters of the token are set, no token after it   *)
(* is examined (a later invalid token or missing value changes nothing),   *)
(* the table is not built, no file is opened and the run ends with exit    *)
(* code 0, the help text printed.                                          *)
(***************************************************************************)
HelpOutcome(pc, o, m, run) ==
    \A k \in 2..Len(m.raw_cmdln) :
        (IsHelp(m.raw_cmdln[k]) /\ ReachedAsOption(m, k)) =>
            LET singles == IF m.raw_cmdln[k] = "--help" THEN {}
                           ELSE Singles(m.raw_cmdln[k])
            IN  /\ HelpRequested(m)
                /\ singles \cap {"a", "n"} # {} => NumbersFlag(o)
                /\ singles \cap {"a", "p"} # {} => PunctsFlag(o)
                /\ "l" \in singles => LogFlag(o)
                /\ \A j \in m.examined : j <= k - 1
                /\ o.cipher_dict = EmptyDict
                /\ run = IdleRun
                /\ fs = CmdLineFiles
                /\ pc \in {"parsing", "exit0"}
                /\ pc = "exit0" => "help" \in PrintedTexts(m)

C17_HelpOutcome ==
    /\ HelpOutcome(encpc, encopts, encmain, encrun)
    /\ HelpOutcome(decpc, decopts, decmain, decrun)

C17_Witness ==
    /\ variant = "A"
    /\ decmain.raw_cmdln = <<DecProgram, "-i", "in.txt", "-ah", "-i">>
    /\ decpc = "exit0"
    /\ decmain.parse_results = "CMDLN_HELP_REQ"
    /\ decopts.decipher_flags[2] /\ decopts.decipher_flags[3]
    /\ decmain.examined = {0, 1, 2, 3}
    /\ "help" \in PrintedTexts(decmain)

\* the option object of the program of o as constructed
Defaults(o) ==
    IF "enc_numbers" \in DOMAIN o THEN CipherOptions
    ELSE IF "dec_numbers" \in DOMAIN o THEN DecipherCtrlOptsB
    ELSE DecipherCtrlOptsA

(***************************************************************************)
(* C18  A command line of the program name alone gives the usage outcome:  *)
(* the usage is printed and nothing else, the exit code is 0, no field of  *)
(* the option object other than the two program names is changed, the      *)
(* table is not built and no file is opened, created or written.           *)
(***************************************************************************)
UsageOutcome(pc, o, m, run) ==
    (Len(m.raw_cmdln) = 1 /\ pc # "start") =>
        /\ pc = "exit0"
        /\ HelpOrUsage(m)
        /\ PrintedTexts(m) = {"usage"}
        /\ o.program_name = m.raw_cmdln[1]
        /\ [o EXCEPT !.program_name = "", !.prog_name_stripped = ""] = Defaults(o)
        /\ o.cipher_dict = EmptyDict
        /\ run = IdleRun
        /\ fs = CmdLineFiles

C18_UsageOutcome ==
    /\ UsageOutcome(encpc, encopts, encmain, encrun)
    /\ UsageOutcome(decpc, decopts, decmain, decrun)

C18_Witness ==
    /\ encmain.raw_cmdln = <<EncProgram>>
    /\ encpc = "exit0"
    /\ encmain.parse_results = 1
    /\ PrintedTexts(encmain) = {"usage"}
    /\ encopts.prog_name_stripped = "enc"

\* a single '-' followed by characters of which one is no recognized flag,
\* the short options with a value set apart
HasUnrecognized(tok) ==
    /\ SingleDash(tok)
    /\ tok \notin ValueOptions
    /\ ~(Singles(tok) \subseteq SingleFlags)

\* the run is in a fatal parse error or on its way to it
FatalParseError(pc, m) ==
    /\ pc \in {"parsing", "exit1"}
    /\ ~HelpRequested(m)
    /\ pc = "exit1" => m.thrown.type = "invalid_argument"

(***************************************************************************)
(* C19  As claimed: a combined single-character token reached in option    *)
(* position with a character after the '-' that is none of a, n, p, l, h   *)
(* is rejected as a whole: the run ends in a fatal parse error with exit   *)
(* code 1, never in a help outcome or a successful parse, wherever the     *)
(* unrecognized character stands in the token.                             *)
(***************************************************************************)
UnrecognizedRejected(pc, m) ==
    \A k \in 2..Len(m.raw_cmdln) :
        (HasUnrecognized(m.raw_cmdln[k]) /\ ReachedAsOption(m, k)) =>
            FatalParseError(pc, m)

C19_Original ==
    /\ UnrecognizedRejected(encpc, encmain)
    /\ UnrecognizedRejected(decpc, decmain)

\* the long and short options the specification lists
ListedOptions ==
    ValueOptions \cup
        {"--shift-nums", "--shift-puncts", "--shift-all", "--help", "--show-log"}

\* a token of the option grammar
SpecValid(tok) == tok \in ListedOptions \/ IsCombined(tok)

(***************************************************************************)
(* C20  As claimed: every token reached in option position that is neither *)
(* a listed option nor a single '-' followed by characters of a, n, p, l,  *)
(* h only causes a fatal parse error that names the token: tokens without  *)
(* a leading dash, the empty token, the bare "-", unknown "--" options and *)
(* tokens with a '-' elsewhere than in first position.                     *)
(***************************************************************************)
InvalidRejected(pc, m) ==
    \A k \in 2..Len(m.raw_cmdln) :
        (~SpecValid(m.raw_cmdln[k]) /\ ReachedAsOption(m, k)) =>
            /\ FatalParseError(pc, m)
            /\ pc = "exit1" => m.thrown.token = m.raw_cmdln[k]

C20_Original ==
    /\ InvalidRejected(encpc, encmain)
    /\ InvalidRejected(decpc, decmain)

\* the last token of the command line is an option that takes a value, in
\* option position, and the parser has examined it
MissingValue(m) ==
    /\ Len(m.raw_cmdln) >= 2
    /\ m.raw_cmdln[Len(m.raw_cmdln)] \in ValueOptions
    /\ ReachedAsOption(m, Len(m.raw_cmdln))

\* the parser has read an element that the token list does not hold
ReadPastEnd(m) == "undefined" \in DOMAIN m /\ m.undefined

(***************************************************************************)
(* C21  As claimed: when -i/--ifile, -o/--ofile or -s/--shift-amount is    *)
(* the last token, its value missing, parsing ends in a fatal error with   *)
(* exit code 1 and no element past the end of the token list is read, in   *)
(* the encipher parser and in both decipher parsers.                       *)
(***************************************************************************)
MissingValueFatal(pc, m) ==
    MissingValue(m) =>
        /\ pc = "exit1"
        /\ m.thrown # NoThrow
        /\ ~ReadPastEnd(m)

C21_Original ==
    /\ MissingValueFatal(encpc, encmain)
    /\ MissingValueFatal(decpc, decmain)

\* str is, in its entirety, a signed decimal integer that is an int: an
\* optional '-', then digits and nothing else
WellFormedInt(str) ==
    LET chars  == Chars(str)
        first  == IF chars # <<>> /\ chars[1] = "-" THEN 2 ELSE 1
    IN  /\ first <= Len(chars)
        /\ \A n \in first..Len(chars) : chars[n] \in DOMAIN DigitValue
        /\ stoi(str).thrown = "none"

\* the raw shift of the option object, whatever the program
RawShift(o) ==
    IF "shift_amount" \in DOMAIN o THEN o.shift_amount ELSE o.orig_shift_len

\* the positions of the shift options whose value the parser has examined
ShiftOptions(m) ==
    {k \in OptionPositions(m.raw_cmdln) :
        /\ m.raw_cmdln[k] \in {"-s", "--shift-amount"}
        /\ k < Len(m.raw_cmdln)
        /\ ReachedAsOption(m, k)
        /\ k \in m.examined}

(***************************************************************************)
(* C22  As claimed: the raw shift is 5 when there is no -s/--shift-amount; *)
(* after -s v with v in its entirety a well-formed signed decimal int,     *)
(* negative values included, the raw shift is v; for any other v (no       *)
(* number, a number followed by other characters, a number out of range)   *)
(* the run ends in a fatal error with exit code 1 and the table is never   *)
(* built from the shift.                                                   *)
(***************************************************************************)
ShiftOption(pc, o, m) ==
    Len(m.raw_cmdln) >= 1 =>
        LET given == ShiftOptions(m)
            bad   == {k \in given : ~WellFormedInt(m.raw_cmdln[k + 1])}
        IN  IF bad # {}
            THEN /\ pc = "exit1"
                 /\ m.thrown.type \in {"invalid_argument", "out_of_range"}
                 /\ o.cipher_dict = EmptyDict
            ELSE RawShift(o) =
                     IF given = {} THEN DefaultShift
                     ELSE stoi(m.raw_cmdln[(CHOOSE k \in given :
                                               \A j \in given : j <= k) + 1]).value

C22_Original ==
    /\ ShiftOption(encpc, encopts, encmain)
    /\ ShiftOption(decpc, decopts, decmain)

(***************************************************************************)
(* One token parsed on its own                                             *)
(***************************************************************************)
\* the tokens the parser has still to examine
Remaining(m) ==
    IF "cmdln_deq" \in DOMAIN m THEN m.cmdln_deq
    ELSE SubSeq(m.raw_cmdln, m.opt_number + 1, Len(m.raw_cmdln))

\* the parser of program prog ("enc", "A", "B") run on the tokens toks, one
\* iteration of its loop, from the option object o: the option object and the
\* locals after it
ParseFirst(prog, o, toks) ==
    LET raw == <<"">> \o toks
    IN  CASE prog = "enc" -> encParseOption(o, [MainInit(raw) EXCEPT !.opt_number = 1])
          [] prog = "B"   -> decBParseOption(o, [MainInit(raw) EXCEPT !.opt_number = 1])
          [] OTHER        -> decAParseOption(o, [MainInitA(raw) EXCEPT !.cmdln_deq = toks])

\* the step of the run is an iteration of the parser's loop on token tok
ParsesToken(pc, m, tok) ==
    /\ pc = "parsing"
    /\ Remaining(m) # <<>>
    /\ Head(Remaining(m)) = tok

(***************************************************************************)
(* C23  As claimed: in every program the token --shift-nums in option      *)
(* position is accepted and has exactly the effect of -n: the digit flag   *)
(* is set, nothing else changes and parsing goes on with the next token.   *)
(***************************************************************************)
ShiftNumsStep(prog, pc, o, m, pcNext, oNext, mNext) ==
    ParsesToken(pc, m, "--shift-nums") =>
        /\ pcNext = "parsing"
        /\ mNext.thrown = NoThrow
        /\ NumbersFlag(oNext)
        /\ oNext = ParseFirst(prog, o, <<"-n">>).o
        /\ Remaining(mNext) = Tail(Remaining(m))

C23_Original ==
    [][ /\ ShiftNumsStep("enc", encpc, encopts, encmain, encpc', encopts', encmain')
        /\ ShiftNumsStep(variant, decpc, decopts, decmain, decpc', decopts', decmain')
      ]_vars

(***************************************************************************)
(* The parsers on command lines of flags: after one of a few options, one  *)
(* combined token of flag characters, or the separate tokens of the same   *)
(* characters, or one of the long options of a flag.                       *)
(***************************************************************************)
FlagLeads == {<<>>, <<"-l">>, <<"-p">>, <<"-s", "-3">>}

\* the separate tokens -c1 ... -cn of the characters cs
Separate(cs) == [n \in 1..Len(cs) |-> Concat(<<"-", cs[n]>>)]

LongFlags == {"--shift-puncts", "--shift-all", "--show-log"}

FlagBodies ==
    {<<Concat(<<"-">> \o cs)>> : cs \in FlagSeqs} \cup
    {Separate(cs) : cs \in FlagSeqs} \cup
    {<<t>> : t \in LongFlags}

FlagCmdLines(program) ==
    {<<program>> \o lead \o body : lead \in FlagLeads, body \in FlagBodies}

InitFlags ==
    \E program \in {"enc", "A", "B"} :
       \E raw_cmdln \in FlagCmdLines(IF program = "enc" THEN EncProgram ELSE DecProgram) :
          /\ variant = IF program = "enc" THEN "none" ELSE program
          /\ encopts = CipherOptions
          /\ decopts = CASE program = "A" -> DecipherCtrlOptsA
                         [] program = "B" -> DecipherCtrlOptsB
                         [] OTHER -> [infilename |-> ""]
          /\ encmain = IF program = "enc" THEN MainInit(raw_cmdln) ELSE MainInit(<<>>)
          /\ decmain = CASE program = "A" -> MainInitA(raw_cmdln)
                         [] program = "B" -> MainInit(raw_cmdln)
                         [] OTHER -> MainInit(<<>>)
          /\ encpc = IF program = "enc" THEN "start" ELSE "off"
          /\ decpc = IF program = "enc" THEN "off" ELSE "start"
          /\ encrun = IdleRun
          /\ decrun = IdleRun
          /\ fs = CmdLineFiles

NextFlags ==
    \/ EncParseBegin
    \/ EncParseOption
    \/ EncParseReturn
    \/ DecParseBegin
    \/ DecParseOption
    \/ DecParseReturn

SpecFlags == InitFlags /\ [][NextFlags]_vars

RECURSIVE ParseAll(_, _, _)
\* the parser of program prog run on the tokens toks from the option object
\* o, until the tokens are used up or an iteration throws or asks for help
ParseAll(prog, o, toks) ==
    IF toks = <<>> THEN o
    ELSE LET st == ParseFirst(prog, o, toks)
         IN  IF st.m.thrown # NoThrow \/ ReadPastEnd(st.m) THEN st.o
             ELSE ParseAll(prog, st.o, Remaining(st.m))

\* the flags a token of a flag command line stands for: n, p, l
FlagsOfToken(tok) ==
    CASE tok = "--shift-puncts" -> {"p"}
      [] tok = "--shift-all"    -> {"n", "p"}
      [] tok = "--show-log"     -> {"l"}
      [] OTHER -> (Singles(tok) \ {"a"}) \cup
                  (IF "a" \in Singles(tok) THEN {"n", "p"} ELSE {})

\* the flags the tokens of a flag command line stand for
FlagsOfCmd(cmd) ==
    UNION {FlagsOfToken(cmd[k]) :
              k \in {j \in OptionPositions(cmd) : cmd[j] \notin ValueOptions}}

\* the separate tokens of a set of flags, in one fixed order
Canonical(flags) ==
    SelectSeq(<<"-n", "-p", "-l">>, LAMBDA t : Singles(t) \subseteq flags)

\* the options with a value a flag command line begins with
ValuePart(cmd) ==
    IF Len(cmd) >= 3 /\ cmd[2] \in ValueOptions THEN SubSeq(cmd, 2, 3) ELSE <<>>

(***************************************************************************)
(* C24  Parsing a combined token -c1...cn of characters of a, n, p, l      *)
(* leaves the option object as parsing the separate tokens -c1 ... -cn     *)
(* does, and as any permutation or repetition of the characters does; -a   *)
(* does what -np does, and --shift-puncts, --shift-all, --show-log do what *)
(* -p, -a, -l do: the option object after a command line is the one after  *)
(* the separate tokens, in one fixed order, of the flags its tokens stand  *)
(* for, so that command lines standing for the same flags leave the same   *)
(* option object.                                                          *)
(***************************************************************************)
SameFlagsSameOptions(prog, pc, o, m) ==
    pc = "parsed" =>
        LET cmd == m.raw_cmdln
            o0  == [Defaults(o) EXCEPT !.program_name = o.program_name,
                                       !.prog_name_stripped = o.prog_name_stripped]
        IN  o = ParseAll(prog, o0, ValuePart(cmd) \o Canonical(FlagsOfCmd(cmd)))

C24_SameFlagsSameOptions ==
    /\ SameFlagsSameOptions("enc", encpc, encopts, encmain)
    /\ SameFlagsSameOptions(variant, decpc, decopts, decmain)

C24_Witness ==
    /\ encpc = "parsed"
    /\ encmain.raw_cmdln = <<EncProgram, "-l", "-pa">>
    /\ encopts.enc_numbers /\ encopts.enc_puncts /\ encopts.display_log_info
    /\ encopts = ParseAll("enc", [CipherOptions EXCEPT
                                     !.program_name = EncProgram,
                                     !.prog_name_stripped = "enc"],
                          <<"-l", "-p", "-a">>)

\* the options a command line sets, whatever the program
SetOptions(o) ==
    [ numbers |-> NumbersFlag(o), puncts |-> PunctsFlag(o), log |-> LogFlag(o),
      infilename |-> o.infilename, outfilename |-> o.outfilename,
      shift |-> RawShift(o) ]

(***************************************************************************)
(* C25  As claimed: when a combined single-character token is rejected     *)
(* because of an unrecognized character, the digit, punctuation and log    *)
(* flags, the file names and the shift keep the values they had before     *)
(* the rejected token was parsed.                                          *)
(***************************************************************************)
RejectedKeepsOptions(pc, o, m, oNext, mNext) ==
    (/\ pc = "parsing"
     /\ Remaining(m) # <<>>
     /\ HasUnrecognized(Head(Remaining(m)))
     /\ mNext.thrown.type = "invalid_argument") =>
        SetOptions(oNext) = SetOptions(o)

C25_Original ==
    [][ /\ RejectedKeepsOptions(encpc, encopts, encmain, encopts', encmain')
        /\ RejectedKeepsOptions(decpc, decopts, decmain, decopts', decmain')
      ]_vars

(***************************************************************************)
(* A whole command line parsed by one of the three parsers                 *)
(***************************************************************************)
\* the option object and the locals of program prog when the loop of its
\* parser begins on the command line raw
ParseBegun(prog, raw) ==
    LET names(o) == [o EXCEPT !.program_name = raw[1],
                              !.prog_name_stripped = filename(raw[1])]
    IN  CASE prog = "enc" -> [o |-> names(CipherOptions),
                              m |-> [MainInit(raw) EXCEPT !.examined = {0},
                                                          !.opt_number = 1]]
          [] prog = "B"   -> [o |-> names(DecipherCtrlOptsB),
                              m |-> [MainInit(raw) EXCEPT !.examined = {0},
                                                          !.opt_number = 1]]
          [] OTHER        -> [o |-> names(DecipherCtrlOptsA),
                              m |-> [MainInitA(raw) EXCEPT !.examined = {0},
                                                           !.cmdln_deq = Tail(raw)]]

RECURSIVE ParseLoop(_, _)
\* the loop of the parser of program prog from the option object and locals
\* st on, to its end
ParseLoop(prog, st) ==
    IF Remaining(st.m) = <<>> \/ st.m.thrown # NoThrow \/ ReadPastEnd(st.m) THEN st
    ELSE ParseLoop(prog, CASE prog = "enc" -> encParseOption(st.o, st.m)
                           [] prog = "B"   -> decBParseOption(st.o, st.m)
                           [] OTHER        -> decAParseOption(st.o, st.m))

\* what a parse comes to: its outcome and, when the run proceeds, the
\* options it has set
OutcomeFrom(o, m, usage) ==
    CASE ReadPastEnd(m) -> [outcome |-> "undefined", options |-> <<>>]
      [] m.thrown.type \in {"invalid_argument", "out_of_range"} ->
             [outcome |-> "error", options |-> <<>>]
      [] usage -> [outcome |-> "usage", options |-> <<>>]
      [] m.parse_results = (IF "cmdln_deq" \in DOMAIN m THEN "CMDLN_HELP_REQ" ELSE 1) ->
             [outcome |-> "help", options |-> <<>>]
      [] OTHER -> [outcome |-> "proceed", options |-> SetOptions(o)]

\* the outcome of the parser of program prog on the command line raw
ParseOutcome(prog, raw) ==
    IF Len(raw) = 1 THEN OutcomeFrom(CipherOptions, MainInit(raw), TRUE)
    ELSE LET st == ParseLoop(prog, ParseBegun(prog, raw))
         IN  OutcomeFrom(st.o, st.m, FALSE)

(***************************************************************************)
(* C26  As claimed: on every token list the encipher parser and the two    *)
(* decipher parsers give the same outcome (proceed, help, usage, fatal     *)
(* error) and, when they proceed, the same input path, output path, raw    *)
(* shift, digit flag, punctuation flag and log flag.                       *)
(***************************************************************************)
\* parsing is over and nothing has been done since
ParseOver(pc, o) == pc = "parsed" \/ (Ended(pc) /\ o.cipher_dict = EmptyDict)

ParsersAgree(pc, o, m) ==
    ParseOver(pc, o) =>
        \A prog \in {"enc", "A", "B"} :
            ParseOutcome(prog, m.raw_cmdln) =
                OutcomeFrom(o, m, "usage" \in PrintedTexts(m))

C26_Original ==
    /\ ParsersAgree(encpc, encopts, encmain)
    /\ ParsersAgree(decpc, decopts, decmain)

\* the position of the run is after the return of generateCipherDict and
\* before the end of the run
DictBuilt(pc) == pc \in {"dict", "inopen", "loop"}

(***************************************************************************)
(* C27  From the return of generateCipherDict until the end of the run the *)
(* substitution table is unchanged: no step of the transform changes its   *)
(* keys or values, a byte that is no key of the table inserts no entry.    *)
(***************************************************************************)
C27_DictUnchanged ==
    [][ /\ DictBuilt(encpc) => encopts'.cipher_dict = encopts.cipher_dict
        /\ DictBuilt(decpc) => decopts'.cipher_dict = decopts.cipher_dict
      ]_vars

\* a run has transformed a line with a byte that is no key of its table
C27_Witness ==
    /\ encpc = "exit0"
    /\ encrun.num_chrs_read = MaxLen
    /\ encopts.cipher_dict # EmptyDict
    /\ \E n \in 1..Len(fs[encrun.ifilepath]) :
          /\ fs[encrun.ifilepath][n] # NL
          /\ fs[encrun.ifilepath][n] \notin DOMAIN encopts.cipher_dict

(***************************************************************************)
(* C28  As claimed: after generateCipherDict has returned no step of the   *)
(* run changes any field of the option object.                             *)
(***************************************************************************)
C28_Original ==
    [][ /\ DictBuilt(encpc) => encopts' = encopts
        /\ DictBuilt(decpc) => decopts' = decopts
      ]_vars

\* the default output name of the decipher program is asked for
DecDefaultName ==
    IF variant = "A" THEN decopts.decipher_flags[1] ELSE decopts.use_default_oname

(***************************************************************************)
(* C28  Amended: after generateCipherDict has returned the transform       *)
(* changes two fields of the option object and no other: nbytes_file,      *)
(* which grows by the number of bytes of every line read, and, in the      *)
(* decipher programs when the default output name is asked for,            *)
(* outfilename, which is set to the input name followed by ".dec".  The    *)
(* encipher program leaves outfilename alone.                              *)
(***************************************************************************)
C28_OptionsFrame ==
    [][ /\ DictBuilt(encpc) =>
              /\ [encopts' EXCEPT !.nbytes_file = 0] = [encopts EXCEPT !.nbytes_file = 0]
              /\ encopts'.nbytes_file - encopts.nbytes_file =
                     encrun'.num_chrs_read - encrun.num_chrs_read
        /\ DictBuilt(decpc) =>
              /\ [decopts' EXCEPT !.nbytes_file = 0, !.outfilename = ""] =
                     [decopts EXCEPT !.nbytes_file = 0, !.outfilename = ""]
              /\ decopts'.nbytes_file - decopts.nbytes_file =
                     decrun'.num_chrs_read - decrun.num_chrs_read
              /\ decopts'.outfilename # decopts.outfilename =>
                     /\ decpc = "inopen"
                     /\ DecDefaultName
                     /\ decopts'.outfilename = decopts.infilename \o ".dec"
      ]_vars

\* a decipher run has read a whole file under the default output name
C28_Witness ==
    /\ decpc = "exit0"
    /\ decopts.nbytes_file = MaxLen
    /\ decrun.num_chrs_read = MaxLen
    /\ decopts.outfilename = decopts.infilename \o ".dec"
    /\ decrun.ofilepath = decopts.outfilename

\* the option object of the encipher program with the raw shift and the
\* flags the decipher option object o has, the shift negated
EncOpposite(o) ==
    EncParsed(InPath, FALSE, EncOutPath, -o.orig_shift_len,
              IF variant = "A" THEN o.decipher_flags[2] ELSE o.dec_numbers,
              IF variant = "A" THEN o.decipher_flags[3] ELSE o.dec_puncts)

(***************************************************************************)
(* C29  For every shift k with -k representable and every combination of   *)
(* the flags, the table the decipher generateCipherDict builds for shift k *)
(* equals, entry for entry, the table the encipher generateCipherDict      *)
(* builds for shift -k with the same flags.                                *)
(***************************************************************************)
C29_DecIsEncOpposite ==
    (decpc = "dict" /\ decopts.orig_shift_len # INT_MIN) =>
        decopts.cipher_dict = generateCipherDict_enc(EncOpposite(decopts)).cipher_dict

\* the decipher table for shift 3 with digits and punctuation: 'd' is
\* deciphered to 'a', '3' to '0', as the encipher table for -3 has it
C29_Witness ==
    /\ decpc = "dict"
    /\ decopts.orig_shift_len = 3
    /\ EncOpposite(decopts).shift_amount = -3
    /\ EncOpposite(decopts).enc_numbers /\ EncOpposite(decopts).enc_puncts
    /\ decopts.cipher_dict[100] = 97
    /\ decopts.cipher_dict[51] = 48
    /\ generateCipherDict_enc(EncOpposite(decopts)).cipher_dict[100] = 97

(***************************************************************************)
(* Whole runs under a scheduler that keeps the program running: command    *)
(* lines with the most negative shift, with and without an input file,     *)
(* ending in valid and invalid tokens, on input files of several shapes.   *)
(***************************************************************************)
TermCmdLines(program) ==
    {<<program>>, <<program, "--ifile", "none.txt">>} \cup
    {<<program, "-i", "in.txt">> \o output \o shift \o last :
        output \in {<<>>, <<"-o", "out.enc">>},
        shift  \in {<<>>, <<"-s", "-2147483648">>, <<"-s", "-3">>,
                    <<"-s", "99999999999">>},
        last   \in {<<>>, <<"-np">>, <<"-h">>, <<"--bogus">>, <<"-">>, <<"-i">>,
                    <<"-s">>}}

\* input files: empty, without a final newline, of empty lines, of one line
TermTexts == {<<>>, <<97>>, <<NL, NL>>, <<57, 97, NL>>}

InitTerm ==
    \E program \in {"enc", "A", "B"}, text \in TermTexts :
       \E raw_cmdln \in TermCmdLines(IF program = "enc" THEN EncProgram ELSE DecProgram) :
          /\ variant = IF program = "enc" THEN "none" ELSE program
          /\ encopts = CipherOptions
          /\ decopts = CASE program = "A" -> DecipherCtrlOptsA
                         [] program = "B" -> DecipherCtrlOptsB
                         [] OTHER -> [infilename |-> ""]
          /\ encmain = IF program = "enc" THEN MainInit(raw_cmdln) ELSE MainInit(<<>>)
          /\ decmain = CASE program = "A" -> MainInitA(raw_cmdln)
                         [] program = "B" -> MainInit(raw_cmdln)
                         [] OTHER -> MainInit(<<>>)
          /\ encpc = IF program = "enc" THEN "start" ELSE "off"
          /\ decpc = IF program = "enc" THEN "off" ELSE "start"
          /\ encrun = IdleRun
          /\ decrun = IdleRun
          /\ fs = (InPath :> text) @@ (EncOutPath :> OldOutput)

\* the program is the only process and is never suspended for ever
SpecTerm == InitTerm /\ [][NextCmd]_vars /\ WF_vars(NextCmd)

\* an iteration of the loop of parseCommandLine uses up a token at least,
\* empties the remaining tokens, or throws
ParseConsumes(pc, m, mNext) ==
    (pc = "parsing" /\ Remaining(m) # <<>>) =>
        \/ Len(Remaining(mNext)) < Len(Remaining(m))
        \/ mNext.thrown # NoThrow

\* an iteration of the line loop moves on in the input file
LineProgress(pc, run, pcNext, runNext) ==
    (pc = "loop" /\ pcNext = "loop") =>
        /\ runNext.ipos > run.ipos
        /\ runNext.ipos <= Len(fs[run.ifilepath])

\* the loop of calculateEffectiveShift / calcReducedShift has ended with a
\* shift of the class size
ReduceEnded(pc, o) ==
    DictBuilt(pc) =>
        IF "effective_shift" \in DOMAIN o
        THEN /\ o.effective_shift \in 0..25
             /\ o.numbers_shift \in 0..9
             /\ o.puncts_shift \in 0..31
        ELSE /\ o.reduced_shift_len \in 0..25
             /\ o.digits_shift_len \in 0..9
             /\ o.puncts_shift_len \in 0..31

\* one iteration of while( eff_shift < 0 ) eff_shift += mod_size, the sum
\* as the addition of two ints gives it
addOnce(eff_shift, mod_size) ==
    IF IntAddOverflows(eff_shift, mod_size)
    THEN IntAddWrapped(eff_shift, mod_size)
    ELSE eff_shift + mod_size

\* the span of shifts, at either end of the negative ints, from which the
\* loop is followed iteration by iteration
SteppedSpan == 70

SteppedShifts == (INT_MIN..(INT_MIN + SteppedSpan)) \cup ((-SteppedSpan)..(-1))

\* the add loop, iteration by iteration, from the negative shift v with the
\* class size mod_size: the addition does not overflow, the value grows and
\* stays below mod_size, so the loop is left after finitely many
\* iterations; the iteration leaves the value the loop ends with as it
\* was, and that value is v reduced modulo mod_size (taken from v +
\* mod_size, for v - r is no int with the most negative v)
LoopSteps(v, mod_size) ==
    /\ ~IntAddOverflows(v, mod_size)
    /\ addOnce(v, mod_size) = v + mod_size
    /\ addOnce(v, mod_size) > v
    /\ addOnce(v, mod_size) < mod_size
    /\ whileNegativeAdd(addOnce(v, mod_size), mod_size) = whileNegativeAdd(v, mod_size)
    /\ addOnce(v, mod_size) >= 0 => whileNegativeAdd(v, mod_size) = addOnce(v, mod_size)
    /\ whileNegativeAdd(v, mod_size) = (v + mod_size) % mod_size

LoopStepped ==
    \A mod_size \in {26, 10, 32} :
        \A v \in SteppedShifts : LoopSteps(v, mod_size)

C30_DefinedRunsEnd ==
    /\ <>(Ended(encpc) \/ Ended(decpc) \/ (decpc = "undefined" /\ ReadPastEnd(decmain)))
    /\ [](LoopStepped /\ ReduceEnded(encpc, encopts) /\ ReduceEnded(decpc, decopts))
    /\ [][ /\ ParseConsumes(encpc, encmain, encmain')
           /\ ParseConsumes(decpc, decmain, decmain')
           /\ LineProgress(encpc, encrun, encpc', encrun')
           /\ LineProgress(decpc, decrun, decpc', decrun')
         ]_vars

\* program A has read the front of the emptied deque after -i, its value
\* missing, and the run goes on
C30_GoesOn ==
    /\ variant = "A"
    /\ decpc = "undefined"
    /\ ReadPastEnd(decmain)
    /\ decmain.raw_cmdln[Len(decmain.raw_cmdln)] = "-i"
    /\ decmain.cmdln_deq = <<>>

\* a run with the most negative shift has read its file to the end
C30_Witness ==
    /\ encpc = "exit0"
    /\ encopts.shift_amount = INT_MIN
    /\ encopts.effective_shift \in 0..25
    /\ encrun.ipos = Len(fs[InPath])
    /\ encrun.num_chrs_read = 2
    /\ Processed(encmain)

====
